---- MODULE Spec2Model ----
(***************************************************************************)
(* A model of the user API of go-clean-architecture: the users table       *)
(* behind the GORM repository, the use cases (Register, Login, GetByID,    *)
(* GetAll, Update, Delete), the gin handlers that answer for them and the  *)
(* route table with its authentication gate.  Every statement a repository *)
(* call sends is one atomic step on the table; a handler that makes        *)
(* several calls is a sequence of steps of one request worker, so that two *)
(* requests may interleave between their statements.  Beside the server    *)
(* there are three more parts of the program: the sequence the ids are     *)
(* drawn from, the seeder, which writes to the same table, and main with   *)
(* its start and its shutdown.                                             *)
(***************************************************************************)
EXTENDS Integers, Sequences, FiniteSets, TLC

VARIABLES users, now, wallet, inflight, out, phase, deps, seq, seeder

vars == <<users, now, wallet, inflight, out, phase, deps, seq, seeder>>

(***************************************************************************)
(* Bounds of the model.                                                    *)
(***************************************************************************)
\* Values the sequence of user ids may reach (rows are never physically
\* removed, and a refused INSERT uses a value up).
MaxUsers == 3
\* Clock ticks the model follows after the server has started.
MaxTime == 2

\* Request workers: gin serves each request on a goroutine of its own.
Workers == {1, 2}

\* The absent value of a record (a nil pointer, no response) and of a string
\* (a missing parameter or header).
None == [none |-> TRUE]
Absent == "<absent>"

(***************************************************************************)
(* Inputs.                                                                 *)
(***************************************************************************)
AdminEmail == "admin@example.com"
UserEmail == "user@example.com"
\* The password the seeder's comment names, and the one clients register with.
SeedPassword == "password123"
Emails == {"a@x.com", "b@x.com"}
NewPassword == "newpass456"
Passwords == {SeedPassword, NewPassword}
WellFormedEmails == Emails \cup {AdminEmail, UserEmail}

(***************************************************************************)
(* Credential hasher (pkg/utils: HashPassword, CheckPassword).             *)
(* A bcrypt digest embeds its salt; verifying recomputes the digest of the *)
(* plaintext under the embedded salt.                                      *)
(***************************************************************************)
Salts == {"s1"}
SeedSalt == "N9qo8uLOickgx2ZMRZoMye"

Digest(salt, plaintext) == <<"bcrypt", salt, plaintext>>

HashPassword(plaintext, salt) == [salt |-> salt, digest |-> Digest(salt, plaintext)]

CheckPassword(plaintext, hash) == hash.digest = Digest(hash.salt, plaintext)

\* The hash the seeder stores, a literal: it is the digest of none of the
\* passwords of the model under its salt ("password123" included, whatever
\* the comment beside it says).
SeedHash == [salt |-> SeedSalt, digest |-> <<".fVKCBd/h.GqwYY.0mvVxQhVGDtJa7C">>]

(***************************************************************************)
(* Token service (pkg/utils: JWTManager).  A token is a payload, the list  *)
(* of the claims' names and values as they are written when it is issued,  *)
(* and a signature, a keyed MAC of that payload; verification recomputes   *)
(* the signature, reads the claims back out of the payload by their names  *)
(* and compares the expiry with the clock: a token is refused once the     *)
(* clock is past its expiry.                                               *)
(***************************************************************************)
Secret == "your-secret-key"
\* JWT_EXPIRE_HOURS, in clock ticks.
ExpireHours == 1

ErrInvalidToken == [ok |-> FALSE]

\* A bearer value that is no token at all.
Garbage == [garbage |-> TRUE]

Sign(secret, payload) == <<"HS256", secret, payload>>

\* The value a payload gives the claim of a name.
Claim(payload, name) ==
    payload[CHOOSE i \in DOMAIN payload : payload[i][1] = name][2]

GenerateToken(userID, email, role, t) ==
    LET payload == <<<<"user_id", userID>>, <<"email", email>>, <<"role", role>>,
                     <<"exp", t + ExpireHours>>>>
    IN  [payload |-> payload, sig |-> Sign(Secret, payload)]

ValidateToken(token, t) ==
    IF token = None \/ token = Garbage THEN ErrInvalidToken
    ELSE IF token.sig # Sign(Secret, token.payload) THEN ErrInvalidToken
    ELSE IF t > Claim(token.payload, "exp") THEN ErrInvalidToken
    ELSE [ok |-> TRUE, UserID |-> Claim(token.payload, "user_id"),
          Email |-> Claim(token.payload, "email"),
          Role |-> Claim(token.payload, "role")]

(***************************************************************************)
(* The users table (entity.User) and the GORM repository over it.          *)
(* The table is a function from the ids in use to the rows; seq is the     *)
(* last value drawn from the sequence users_id_seq.  An INSERT draws the   *)
(* next value before the index is checked, and a value drawn is not given  *)
(* back when the INSERT is refused: ids may have gaps.  The statements of  *)
(* one repository call are steps of their own wherever statements of other *)
(* requests can come in between.                                           *)
(* DeletedAt is the soft-delete marker; every query GORM builds for the    *)
(* model adds "deleted_at IS NULL", the unique index on email does not.    *)
(***************************************************************************)
User(id, name, email, password, role, isActive) ==
    [ID |-> id, Name |-> name, Email |-> email, Password |-> password,
     Role |-> role, IsActive |-> isActive, Deleted |-> FALSE]

ErrRecordNotFound == "record not found"
ErrDuplicatedKey == "duplicate key value violates unique constraint"

\* Faulty variant: a unique index over the rows that are not deleted only.
EmailIndexLiveOnly(us, id, email) ==
    \A i \in DOMAIN us : (i # id /\ ~us[i].Deleted) => us[i].Email # email

\* Faulty variant: a table without the unique index on the email.
NoEmailIndex(us, id, email) == TRUE

\* What the process depends on and may find unavailable: the PostgreSQL
\* server, the Redis server and the port to listen on.
Deps == [database : BOOLEAN, cache : BOOLEAN, port : BOOLEAN]

\* The error of a statement sent while the database cannot be reached.
ErrConnection == "dial tcp: connect: connection refused"
Down == ~deps.database

\* The uniqueIndex on users.email: no other row, soft-deleted or not, holds it.
EmailIndexAllows(us, id, email) ==
    \A i \in DOMAIN us : i # id => us[i].Email # email

\* The column defaults: on an INSERT GORM puts the default in the place of a
\* zero value, so a false is_active is stored (and given back) as true and
\* an empty role as "user".
Defaults(user) ==
    [user EXCEPT !.IsActive = TRUE, !.Role = IF @ = "" THEN "user" ELSE @]

\* Faulty variant: an INSERT that stores the row as an administrator's.
CreateDrawAsAdmin(sq, user) ==
    [err |-> "", seq |-> sq + 1,
     user |-> [user EXCEPT !.ID = sq + 1, !.Role = "admin"]]

\* Faulty variant: an INSERT that the index does not check.
CreateInsertUnchecked(us, user) ==
    [err |-> "", users |-> us @@ (user.ID :> user), user |-> user]

\* db.Create(user) is BEGIN, INSERT ... RETURNING id, COMMIT.  The INSERT
\* first evaluates the column defaults, the id among them: the next value of
\* the sequence, drawn before the indexes are looked at and never given
\* back ...
CreateDraw(sq, user) ==
    IF Down THEN [err |-> ErrConnection, user |-> user, seq |-> sq]
    ELSE [err |-> "", seq |-> sq + 1,
          user |-> [Defaults(user) EXCEPT !.ID = sq + 1]]

\* ... then the row meets the indexes (the unique index on email, the
\* primary key) and, admitted, is committed: from here on other statements
\* see it.  Another INSERT may have drawn its id and come here in between;
\* a connection lost in between rolls the INSERT back.
CreateInsert(us, user) ==
    IF Down THEN [err |-> ErrConnection, users |-> us, user |-> user]
    ELSE IF ~EmailIndexAllows(us, user.ID, user.Email) \/ user.ID \in DOMAIN us
    THEN [err |-> ErrDuplicatedKey, users |-> us, user |-> user]
    ELSE [err |-> "", users |-> us @@ (user.ID :> user), user |-> user]

\* db.First(&user, id)
FindByID(us, id) ==
    IF Down THEN [err |-> ErrConnection, user |-> None]
    ELSE IF id \in DOMAIN us /\ ~us[id].Deleted
    THEN [err |-> "", user |-> us[id]]
    ELSE [err |-> ErrRecordNotFound, user |-> None]

\* Faulty variant: a lookup by email that finds no row.
FindByEmailNever(us, email) == [err |-> ErrRecordNotFound, user |-> None]

\* db.Where("email = ?", email).First(&user)
FindByEmail(us, email) ==
    IF Down THEN [err |-> ErrConnection, user |-> None]
    ELSE IF \E i \in DOMAIN us : us[i].Email = email /\ ~us[i].Deleted
    THEN [err |-> "",
          user |-> us[CHOOSE i \in DOMAIN us :
                         /\ us[i].Email = email /\ ~us[i].Deleted
                         /\ \A j \in DOMAIN us :
                              (us[j].Email = email /\ ~us[j].Deleted) => i <= j]]
    ELSE [err |-> ErrRecordNotFound, user |-> None]

\* Faulty variant: a write that leaves the stored name as it is.
SaveRowKeepName(us, user) ==
    IF user.ID \in DOMAIN us /\ ~us[user.ID].Deleted
    THEN IF ~EmailIndexAllows(us, user.ID, user.Email)
         THEN [err |-> ErrDuplicatedKey, users |-> us, user |-> user, rows |-> 0]
         ELSE [err |-> "", user |-> user, rows |-> 1,
               users |-> [us EXCEPT ![user.ID] =
                             [user EXCEPT !.Name = us[user.ID].Name]]]
    ELSE [err |-> "", users |-> us, user |-> user, rows |-> 0]

\* db.Save(user) is two statements, each committed on its own.  The first:
\* UPDATE of every column WHERE id = ? AND deleted_at IS NULL; rows tells how
\* many rows it touched (none when the row is deleted, or there is none) ...
SaveRow(us, user) ==
    IF Down THEN [err |-> ErrConnection, users |-> us, user |-> user, rows |-> 0]
    ELSE IF user.ID \in DOMAIN us /\ ~us[user.ID].Deleted
    THEN IF ~EmailIndexAllows(us, user.ID, user.Email)
         THEN [err |-> ErrDuplicatedKey, users |-> us, user |-> user, rows |-> 0]
         ELSE [err |-> "", users |-> [us EXCEPT ![user.ID] = user],
               user |-> user, rows |-> 1]
    ELSE [err |-> "", users |-> us, user |-> user, rows |-> 0]

\* ... the second, sent when the first touched no row: INSERT ... ON CONFLICT
\* (id) DO UPDATE of every column, deleted_at included, under the id the
\* entity carries and with the column defaults of an INSERT, whatever has
\* become of the row since the first statement.
UpsertRow(us, user) ==
    IF Down THEN [err |-> ErrConnection, users |-> us, user |-> user]
    ELSE IF ~EmailIndexAllows(us, user.ID, user.Email)
    THEN [err |-> ErrDuplicatedKey, users |-> us, user |-> user]
    ELSE LET row == Defaults(user)
         IN  [err |-> "", user |-> row,
              users |-> IF user.ID \in DOMAIN us
                        THEN [us EXCEPT ![user.ID] = row]
                        ELSE us @@ (user.ID :> row)]

\* db.Delete(&entity.User{}, id): UPDATE SET deleted_at = now WHERE id = ? AND
\* deleted_at IS NULL; touching no row is not an error.
DeleteRow(us, id) ==
    IF Down THEN [err |-> ErrConnection, users |-> us]
    ELSE IF id \in DOMAIN us /\ ~us[id].Deleted
    THEN [err |-> "", users |-> [us EXCEPT ![id].Deleted = TRUE]]
    ELSE [err |-> "", users |-> us]

\* The rows a query for the model sees.
Visible(us) == {i \in DOMAIN us : ~us[i].Deleted}

(***************************************************************************)
(* Request binding (dto tags, pkg/validator) and path parameters.          *)
(***************************************************************************)
\* A body that is no JSON object of the expected types.
Malformed == [malformed |-> TRUE]

Msg == [required |-> "This field is required", email |-> "Invalid email format",
        min |-> "Value is too short", max |-> "Value is too long"]

\* The first failing tag of a field, "" when the field passes.
CheckName(v, required) ==
    IF v = "" THEN (IF required THEN Msg.required ELSE "")
    ELSE IF Len(v) < 2 THEN Msg.min
    ELSE IF Len(v) > 100 THEN Msg.max
    ELSE ""

CheckEmail(v, required) ==
    IF v = "" THEN (IF required THEN Msg.required ELSE "")
    ELSE IF v \notin WellFormedEmails THEN Msg.email
    ELSE ""

CheckPasswordField(v, required, min) ==
    IF v = "" THEN (IF required THEN Msg.required ELSE "")
    ELSE IF Len(v) < min THEN Msg.min
    ELSE ""

\* FormatValidationErrors: field -> message, for the fields that fail.
FormatValidationErrors(checks) ==
    [f \in {g \in DOMAIN checks : checks[g] # ""} |-> checks[f]]

\* c.ShouldBindJSON(&req): ok, or the field map answered with 422.
BindRegister(body) ==
    IF body = Malformed THEN [ok |-> FALSE, errors |-> [f \in {} |-> ""]]
    ELSE LET e == FormatValidationErrors(
                     [name |-> CheckName(body.name, TRUE),
                      email |-> CheckEmail(body.email, TRUE),
                      password |-> CheckPasswordField(body.password, TRUE, 6)])
         IN  [ok |-> DOMAIN e = {}, errors |-> e]

BindLogin(body) ==
    IF body = Malformed THEN [ok |-> FALSE, errors |-> [f \in {} |-> ""]]
    ELSE LET e == FormatValidationErrors(
                     [email |-> CheckEmail(body.email, TRUE),
                      password |-> CheckPasswordField(body.password, TRUE, 0)])
         IN  [ok |-> DOMAIN e = {}, errors |-> e]

BindUpdate(body) ==
    IF body = Malformed THEN [ok |-> FALSE, errors |-> [f \in {} |-> ""]]
    ELSE LET e == FormatValidationErrors(
                     [name |-> CheckName(body.name, FALSE),
                      email |-> CheckEmail(body.email, FALSE),
                      password |-> CheckPasswordField(body.password, FALSE, 6)])
         IN  [ok |-> DOMAIN e = {}, errors |-> e]

\* The decimal numerals requests use in paths and queries, with their values.
Numeral ==
    ("-1" :> -1) @@ ("0" :> 0) @@ ("1" :> 1) @@ ("2" :> 2) @@ ("3" :> 3) @@
    ("4" :> 4) @@ ("10" :> 10) @@ ("100" :> 100) @@ ("101" :> 101)

\* strconv.ParseUint(c.Param("id"), 10, 32)
ParseUint(s) ==
    IF s \in DOMAIN Numeral /\ Numeral[s] >= 0
    THEN [ok |-> TRUE, value |-> Numeral[s]]
    ELSE [ok |-> FALSE, value |-> 0]

(* Go's int is 64 bits wide.  A value that may be anywhere in its range is   *)
(* kept as four 16-bit limbs, least significant first, in two's complement; *)
(* arithmetic on it wraps as the machine's does.                            *)
\* The limbs of a number n with -65536 <= n.
I64(n) ==
    IF n >= 0 THEN <<n % 65536, n \div 65536, 0, 0>>
    ELSE <<65536 + n, 65535, 65535, 65535>>

MaxInt64 == <<65535, 65535, 65535, 32767>>

IsNeg(x) == x[4] >= 32768

\* x < n and x > n, for a number n with 0 <= n < 65536
LessThan(x, n) == IsNeg(x) \/ (x[2] = 0 /\ x[3] = 0 /\ x[4] = 0 /\ x[1] < n)
GreaterThan(x, n) == ~IsNeg(x) /\ (x[2] # 0 \/ x[3] # 0 \/ x[4] # 0 \/ x[1] > n)

\* Whether x is a number of less than 31 bits, and then that number.
IsSmall(x) ==
    \/ x[3] = 0 /\ x[4] = 0 /\ x[2] < 16384
    \/ x[3] = 65535 /\ x[4] = 65535 /\ x[2] = 65535
Small(x) == IF IsNeg(x) THEN x[1] - 65536 ELSE x[2] * 65536 + x[1]

\* x - 1
Dec(x) ==
    IF x[1] > 0 THEN <<x[1] - 1, x[2], x[3], x[4]>>
    ELSE IF x[2] > 0 THEN <<65535, x[2] - 1, x[3], x[4]>>
    ELSE IF x[3] > 0 THEN <<65535, 65535, x[3] - 1, x[4]>>
    ELSE IF x[4] > 0 THEN <<65535, 65535, 65535, x[4] - 1>>
    ELSE <<65535, 65535, 65535, 65535>>

\* x * k for a number k with 0 <= k <= 100, the bits beyond the 64th lost
Mul(x, k) ==
    LET p1 == x[1] * k
        p2 == x[2] * k + p1 \div 65536
        p3 == x[3] * k + p2 \div 65536
        p4 == x[4] * k + p3 \div 65536
    IN  <<p1 % 65536, p2 % 65536, p3 % 65536, p4 % 65536>>

\* x / k and x % k for x >= 0 and a number k with 1 <= k <= 100
DivMod(x, k) ==
    LET r4 == x[4] % k
        c3 == r4 * 65536 + x[3]
        c2 == (c3 % k) * 65536 + x[2]
        c1 == (c2 % k) * 65536 + x[1]
    IN  [quot |-> <<c1 \div k, c2 \div k, c3 \div k, x[4] \div k>>, rem |-> c1 % k]

\* Numerals beyond the numbers TLC computes with: the largest int, and one
\* past every int.
BigNumeral ==
    ("9223372036854775807" :> MaxInt64) @@ ("99999999999999999999" :> MaxInt64)

\* strconv.Atoi, its error dropped: 0 for what is no number, the largest int
\* for a numeral past it.
Atoi(s) ==
    IF s \in DOMAIN Numeral THEN I64(Numeral[s])
    ELSE IF s \in DOMAIN BigNumeral THEN BigNumeral[s]
    ELSE I64(0)

\* c.DefaultQuery(key, def)
DefaultQuery(v, def) == IF v = Absent THEN def ELSE v

IdParams == {d \in DOMAIN Numeral : Numeral[d] >= 0 /\ Numeral[d] <= MaxUsers} \cup {"abc"}
PageParams == {Absent, "2", "abc", "9223372036854775807"}
LimitParams == {Absent, "1", "101"}

(***************************************************************************)
(* Responses (pkg/response).  "by" names the handler or middleware that    *)
(* wrote the response, "auth" the identity the gate attached to the        *)
(* request (None when no gate ran).                                        *)
(***************************************************************************)
Response(route, req, by, auth, status, message, data, error) ==
    [route |-> route, req |-> req, by |-> by, auth |-> auth, status |-> status,
     message |-> message, data |-> data, error |-> error]

\* Faulty variant: the view built from the whole entity, credential included.
UserResponseWithPassword(user) ==
    [ID |-> user.ID, Name |-> user.Name, Email |-> user.Email,
     Role |-> user.Role, IsActive |-> user.IsActive, Password |-> user.Password]

\* dto.UserResponse: the public view of a row.
UserResponse(user) ==
    [ID |-> user.ID, Name |-> user.Name, Email |-> user.Email,
     Role |-> user.Role, IsActive |-> user.IsActive]

(***************************************************************************)
(* Routing (router.SetupRoutes) and the gates (middleware).                *)
(***************************************************************************)
RHealth == "GET /health"
RReady == "GET /ready"
RRegister == "POST /api/v1/auth/register"
RLogin == "POST /api/v1/auth/login"
RMe == "GET /api/v1/users/me"
RList == "GET /api/v1/users"
RGet == "GET /api/v1/users/:id"
RPut == "PUT /api/v1/users/:id"
RDelete == "DELETE /api/v1/users/:id"
\* A request under the admin group's prefix.
RAdmin == "GET /api/v1/admin/users"

PublicRoutes == {RHealth, RReady, RRegister, RLogin}
UsersGroup == {RMe, RList, RGet, RPut, RDelete}
\* Variant: the admin group with a route registered in it.
AdminGroupWithRoute == {RAdmin}

\* The admin group attaches its middleware and registers no route.
AdminGroup == {}

Registered == PublicRoutes \cup UsersGroup \cup AdminGroup

\* Faulty variant: DELETE /users/:id registered outside the users group.
MiddlewaresOpenDelete(route) ==
    IF route \in {RMe, RList, RGet, RPut} THEN <<"AuthMiddleware">>
    ELSE << >>

\* Faulty variant: the role check of the admin group attached to the users
\* group as well.
MiddlewaresRoleGated(route) ==
    IF route \in UsersGroup \/ route \in AdminGroup
    THEN <<"AuthMiddleware", "RoleMiddleware">>
    ELSE << >>

\* The group middleware in front of a registered route's handler.
Middlewares(route) ==
    IF route \in UsersGroup THEN <<"AuthMiddleware">>
    ELSE IF route \in AdminGroup THEN <<"AuthMiddleware", "RoleMiddleware">>
    ELSE << >>

\* AuthMiddleware: the bearer token must verify; its claims are attached.
AuthMiddleware(bearer, t) ==
    LET v == ValidateToken(bearer, t)
    IN  IF v.ok
        THEN [halt |-> FALSE, auth |-> [UserID |-> v.UserID, Email |-> v.Email, Role |-> v.Role]]
        ELSE [halt |-> TRUE, by |-> "AuthMiddleware", status |-> 401,
              message |-> "Unauthorized"]

\* RoleMiddleware(role): the attached role must be the expected one.
RoleMiddleware(expected, auth) ==
    IF auth # None /\ auth.Role = expected
    THEN [halt |-> FALSE, auth |-> auth]
    ELSE [halt |-> TRUE, by |-> "RoleMiddleware", status |-> 403,
          message |-> "Forbidden"]

\* The middleware of a chain run in order until one halts.
RECURSIVE RunChain(_, _, _, _)
RunChain(mws, auth, bearer, t) ==
    IF mws = << >> THEN [halt |-> FALSE, auth |-> auth]
    ELSE LET r == IF Head(mws) = "AuthMiddleware" THEN AuthMiddleware(bearer, t)
                  ELSE RoleMiddleware("admin", auth)
         IN  IF r.halt THEN r ELSE RunChain(Tail(mws), r.auth, bearer, t)

\* gin's dispatch: an unregistered path is answered by NoRoute, in front of
\* which no group middleware stands.
Dispatch(route, bearer, t) ==
    IF route \notin Registered
    THEN [halt |-> TRUE, by |-> "NoRoute", status |-> 404,
          message |-> "404 page not found"]
    ELSE RunChain(Middlewares(route), None, bearer, t)

\* A request: its Authorization bearer, its :id path segment and its body.
Req(bearer, id, body) == [bearer |-> bearer, id |-> id, body |-> body]

\* The response of a request halted before its handler, which read no more
\* of it than the Authorization header.
Halted(route, req, d) ==
    Response(route, Req(req.bearer, Absent, None), d.by, None, d.status,
             d.message, None, None)

(***************************************************************************)
(* Use cases with a single repository call (usecase.userUseCase).          *)
(***************************************************************************)
\* Faulty variant: Login looking at the active flag before the password.
LoginActiveFirst(us, t, req) ==
    LET f == FindByEmail(us, req.email)
    IN  IF f.err # "" THEN [err |-> "invalid email or password"]
        ELSE IF ~f.user.IsActive THEN [err |-> "account is not active"]
        ELSE IF ~CheckPassword(req.password, f.user.Password)
        THEN [err |-> "invalid email or password"]
        ELSE [err |-> "",
              Token |-> GenerateToken(f.user.ID, f.user.Email, f.user.Role, t),
              User |-> UserResponse(f.user)]

\* Faulty variant: Login telling an unknown email from a wrong password.
LoginLeaky(us, t, req) ==
    LET f == FindByEmail(us, req.email)
    IN  IF f.err # "" THEN [err |-> "user not found"]
        ELSE IF ~CheckPassword(req.password, f.user.Password)
        THEN [err |-> "invalid email or password"]
        ELSE IF ~f.user.IsActive THEN [err |-> "account is not active"]
        ELSE [err |-> "",
              Token |-> GenerateToken(f.user.ID, f.user.Email, f.user.Role, t),
              User |-> UserResponse(f.user)]

\* Faulty variant: Login issuing every token with the role "user".
LoginAsUser(us, t, req) ==
    LET f == FindByEmail(us, req.email)
    IN  IF f.err # "" THEN [err |-> "invalid email or password"]
        ELSE IF ~CheckPassword(req.password, f.user.Password)
        THEN [err |-> "invalid email or password"]
        ELSE IF ~f.user.IsActive THEN [err |-> "account is not active"]
        ELSE [err |-> "",
              Token |-> GenerateToken(f.user.ID, f.user.Email, "user", t),
              User |-> UserResponse(f.user)]

Login(us, t, req) ==
    LET f == FindByEmail(us, req.email)
    IN  IF f.err = ErrRecordNotFound THEN [err |-> "invalid email or password"]
        ELSE IF f.err # "" THEN [err |-> f.err]
        ELSE IF ~CheckPassword(req.password, f.user.Password)
        THEN [err |-> "invalid email or password"]
        ELSE IF ~f.user.IsActive THEN [err |-> "account is not active"]
        ELSE [err |-> "",
              Token |-> GenerateToken(f.user.ID, f.user.Email, f.user.Role, t),
              User |-> UserResponse(f.user)]

GetByID(us, id) ==
    LET f == FindByID(us, id)
    IN  IF f.err = ErrRecordNotFound THEN [err |-> "user not found"]
        ELSE IF f.err # "" THEN [err |-> f.err]
        ELSE [err |-> "", User |-> UserResponse(f.user)]

(***************************************************************************)
(* The handlers (handler.UserHandler over usecase.userUseCase), one        *)
(* operator per step.  A step that ends the request gives its response; a  *)
(* step followed by another repository call gives what the request carries *)
(* on ("flight").  Each takes the table and gives the table it leaves.     *)
(***************************************************************************)
Idle == [op |-> "idle"]

Answer(us, resp) == [users |-> us, flight |-> Idle, resp |-> resp]
Carry(us, flight) == [users |-> us, flight |-> flight, resp |-> None]

\* POST /auth/register: the handler binds the body ...
RegisterStep(us, t, req) ==
    LET d == Dispatch(RRegister, req.bearer, t)
        b == BindRegister(req.body)
    IN  IF d.halt THEN Answer(us, Halted(RRegister, req, d))
        ELSE IF ~b.ok
        THEN Answer(us, Response(RRegister, req, "Register", None, 422,
                                 "Validation failed", None, b.errors))
        ELSE Carry(us, [op |-> "RegisterFind", req |-> req, auth |-> None])

\* ... the use case looks the email up (the pre-check) and hashes the
\* password ...
RegisterFindStep(us, f, salt) ==
    LET e == FindByEmail(us, f.req.body.email)
    IN  IF e.err \notin {"", ErrRecordNotFound}
        THEN Answer(us, Response(RRegister, f.req, "Register", None, 400,
                                 e.err, None, None))
        ELSE IF e.err = ""
        THEN Answer(us, Response(RRegister, f.req, "Register", None, 400,
                                 "email already registered", None, None))
        ELSE Carry(us, [op |-> "RegisterCreate", req |-> f.req, auth |-> None,
                        user |-> User(0, f.req.body.name, f.req.body.email,
                                      HashPassword(f.req.body.password, salt),
                                      "user", TRUE)])

\* ... userRepo.Create: the INSERT draws the id ...
RegisterCreateStep(us, sq, f) ==
    LET r == CreateDraw(sq, f.user)
    IN  IF r.err # ""
        THEN [users |-> us, flight |-> Idle, seq |-> r.seq,
              resp |-> Response(RRegister, f.req, "Register", None, 400,
                                r.err, None, None)]
        ELSE [users |-> us, seq |-> r.seq, resp |-> None,
              flight |-> [f EXCEPT !.op = "RegisterInsert", !.user = r.user]]

\* Faulty variant: the answer of a registration that was never inserted.
RegisterInsertNoInsert(us, f) ==
    Answer(us, Response(RRegister, f.req, "Register", None, 201,
                        "User registered successfully",
                        UserResponse(f.user), None))

\* ... and the row is inserted, or refused; then the answer.
RegisterInsertStep(us, f) ==
    LET r == CreateInsert(us, f.user)
    IN  IF r.err # ""
        THEN Answer(r.users, Response(RRegister, f.req, "Register", None, 400,
                                      r.err, None, None))
        ELSE Answer(r.users, Response(RRegister, f.req, "Register", None, 201,
                                      "User registered successfully",
                                      UserResponse(r.user), None))

\* POST /auth/login
LoginResponse(us, t, req) ==
    LET d == Dispatch(RLogin, req.bearer, t)
        b == BindLogin(req.body)
    IN  IF d.halt THEN Halted(RLogin, req, d)
        ELSE IF ~b.ok
        THEN Response(RLogin, req, "Login", None, 422, "Validation failed",
                      None, b.errors)
        ELSE LET r == Login(us, t, req.body)
             IN  IF r.err # ""
                 THEN Response(RLogin, req, "Login", None, 401, r.err, None, None)
                 ELSE Response(RLogin, req, "Login", None, 200, "Login successful",
                               [Token |-> r.Token, User |-> r.User], None)

\* GET /users/me
GetCurrentUserResponse(us, t, req) ==
    LET d == Dispatch(RMe, req.bearer, t)
    IN  IF d.halt THEN Halted(RMe, req, d)
        ELSE IF d.auth = None
        THEN Response(RMe, req, "GetCurrentUser", d.auth, 401,
                      "User not authenticated", None, None)
        ELSE LET r == GetByID(us, d.auth.UserID)
             IN  IF r.err # ""
                 THEN Response(RMe, req, "GetCurrentUser", d.auth, 404, r.err, None, None)
                 ELSE Response(RMe, req, "GetCurrentUser", d.auth, 200,
                               "User retrieved successfully", r.User, None)

\* GET /users/:id
GetUserResponse(us, t, req) ==
    LET d == Dispatch(RGet, req.bearer, t)
        id == ParseUint(req.id)
    IN  IF d.halt THEN Halted(RGet, req, d)
        ELSE IF ~id.ok
        THEN Response(RGet, req, "GetUser", d.auth, 400, "Invalid user ID", None, None)
        ELSE LET r == GetByID(us, id.value)
             IN  IF r.err # ""
                 THEN Response(RGet, req, "GetUser", d.auth, 404, r.err, None, None)
                 ELSE Response(RGet, req, "GetUser", d.auth, 200,
                               "User retrieved successfully", r.User, None)

\* The page, an int of any size, and the limit, a number from 1 to 100.
NormalPage(page) == IF LessThan(page, 1) THEN I64(1) ELSE page
NormalLimit(limit) ==
    IF LessThan(limit, 1) \/ GreaterThan(limit, 100) THEN 10 ELSE Small(limit)

\* response.BuildMeta
BuildMeta(page, perPage, total) ==
    [CurrentPage |-> page, PerPage |-> perPage, Total |-> total,
     TotalPages |-> (total \div perPage) + (IF total % perPage > 0 THEN 1 ELSE 0)]

\* The orders in which a query with no ORDER BY may return the visible rows.
Orders(ids) ==
    {o \in [1..Cardinality(ids) -> ids] : \A i, j \in DOMAIN o : o[i] = o[j] => i = j}

\* FindAll: offset := (page - 1) * limit
GetOffset(page, limit) == Mul(Dec(page), limit)

\* The rows OFFSET skips: GORM writes the clause only for an offset above 0.
Skipped(order, offset) ==
    IF LessThan(offset, 1) THEN 0
    ELSE IF GreaterThan(offset, Len(order)) THEN Len(order)
    ELSE Small(offset)

\* Offset(offset).Limit(limit) of the rows in the order the database returns.
PageOf(us, order, offset, limit) ==
    LET skip == Skipped(order, offset)
    IN  [k \in 1..(IF Len(order) - skip < limit THEN Len(order) - skip
                   ELSE limit) |-> UserResponse(us[order[skip + k]])]

\* GET /users: the query parameters and FindAll's count ...
GetUsersStep(us, t, req) ==
    LET d == Dispatch(RList, req.bearer, t)
        page == NormalPage(Atoi(DefaultQuery(req.body.page, "1")))
        limit == NormalLimit(Atoi(DefaultQuery(req.body.limit, "10")))
    IN  IF d.halt THEN Answer(us, Halted(RList, req, d))
        ELSE IF Down
        THEN Answer(us, Response(RList, req, "GetUsers", d.auth, 500,
                                 ErrConnection, None, None))
        ELSE Carry(us, [op |-> "GetUsersFind", req |-> req, auth |-> d.auth,
                        page |-> page, limit |-> limit,
                        total |-> Cardinality(Visible(us))])

\* ... then FindAll's page query and the answer.
GetUsersFindStep(us, f, order) ==
    IF Down
    THEN Answer(us, Response(RList, f.req, "GetUsers", f.auth, 500,
                             ErrConnection, None, None))
    ELSE Answer(us, Response(RList, f.req, "GetUsers", f.auth, 200,
                        "Users retrieved successfully",
                        [Users |-> PageOf(us, order, GetOffset(f.page, f.limit), f.limit),
                         Meta |-> BuildMeta(f.page, f.limit, f.total)], None))

\* Faulty variant: the password of the request never applied.
ApplyPasswordNever(user, body, salt) == user

\* Faulty variant: the password re-hashed whether the request supplies it or not.
ApplyPasswordAlways(user, body, salt) ==
    [user EXCEPT !.Password = HashPassword(body.password, salt)]

\* The password of the request applied to the entity, hashed.
ApplyPassword(user, body, salt) ==
    IF body.password # ""
    THEN [user EXCEPT !.Password = HashPassword(body.password, salt)]
    ELSE user

\* PUT /users/:id: the id, the binding, FindByID and the name ...
UpdateUserStep(us, t, req, salt) ==
    LET d == Dispatch(RPut, req.bearer, t)
        pid == ParseUint(req.id)
        b == BindUpdate(req.body)
        f == FindByID(us, pid.value)
        named == IF req.body.name # "" THEN [f.user EXCEPT !.Name = req.body.name]
                 ELSE f.user
    IN  IF d.halt THEN Answer(us, Halted(RPut, req, d))
        ELSE IF ~pid.ok
        THEN Answer(us, Response(RPut, Req(req.bearer, req.id, None), "UpdateUser",
                                 d.auth, 400, "Invalid user ID", None, None))
        ELSE IF ~b.ok
        THEN Answer(us, Response(RPut, req, "UpdateUser", d.auth, 422,
                                 "Validation failed", None, b.errors))
        ELSE IF f.err # ""
        THEN Answer(us, Response(RPut, req, "UpdateUser", d.auth, 400,
                                 IF f.err = ErrRecordNotFound THEN "user not found"
                                 ELSE f.err, None, None))
        ELSE IF req.body.email # ""
        THEN Carry(us, [op |-> "UpdateCheckEmail", req |-> req, auth |-> d.auth,
                        id |-> pid.value, user |-> named])
        ELSE Carry(us, [op |-> "UpdateSave", req |-> req, auth |-> d.auth,
                        id |-> pid.value,
                        user |-> ApplyPassword(named, req.body, salt)])

\* ... the FindByEmail that looks for another holder of the supplied email ...
UpdateCheckEmailStep(us, f, salt) ==
    LET e == FindByEmail(us, f.req.body.email)
    IN  IF e.err \notin {"", ErrRecordNotFound}
        THEN Answer(us, Response(RPut, f.req, "UpdateUser", f.auth, 400,
                                 e.err, None, None))
        ELSE IF e.err = "" /\ e.user.ID # f.id
        THEN Answer(us, Response(RPut, f.req, "UpdateUser", f.auth, 400,
                                 "email already taken", None, None))
        ELSE Carry(us, [f EXCEPT !.op = "UpdateSave",
                                 !.user = ApplyPassword(
                                     [f.user EXCEPT !.Email = f.req.body.email],
                                     f.req.body, salt)])

\* ... then userRepo.Update: the UPDATE of db.Save and, when it touched a
\* row, the answer ...
UpdateSaveStep(us, f) ==
    LET r == SaveRow(us, f.user)
    IN  IF r.err # ""
        THEN Answer(r.users, Response(RPut, f.req, "UpdateUser", f.auth, 400,
                                      r.err, None, None))
        ELSE IF r.rows = 0
        THEN Carry(r.users, [f EXCEPT !.op = "UpdateUpsert"])
        ELSE Answer(r.users, Response(RPut, f.req, "UpdateUser", f.auth, 200,
                                      "User updated successfully",
                                      UserResponse(r.user), None))

\* ... or, when it touched none, the second statement of db.Save and the
\* answer.
UpdateUpsertStep(us, f) ==
    LET r == UpsertRow(us, f.user)
    IN  IF r.err # ""
        THEN Answer(r.users, Response(RPut, f.req, "UpdateUser", f.auth, 400,
                                      r.err, None, None))
        ELSE Answer(r.users, Response(RPut, f.req, "UpdateUser", f.auth, 200,
                                      "User updated successfully",
                                      UserResponse(r.user), None))

\* Faulty variant: a DELETE that only the user named by the id may send.
DeleteUserOwnerOnly(us, t, req) ==
    LET d == Dispatch(RDelete, req.bearer, t)
        pid == ParseUint(req.id)
    IN  IF d.halt THEN Answer(us, Halted(RDelete, req, d))
        ELSE IF ~pid.ok
        THEN Answer(us, Response(RDelete, req, "DeleteUser", d.auth, 400,
                                 "Invalid user ID", None, None))
        ELSE IF d.auth.UserID # pid.value
        THEN Answer(us, Response(RDelete, req, "DeleteUser", d.auth, 403,
                                 "Insufficient permissions", None, None))
        ELSE IF FindByID(us, pid.value).err # ""
        THEN Answer(us, Response(RDelete, req, "DeleteUser", d.auth, 404,
                                 "user not found", None, None))
        ELSE Carry(us, [op |-> "DeleteSoft", req |-> req, auth |-> d.auth,
                        id |-> pid.value])

\* DELETE /users/:id: the id and FindByID ...
DeleteUserStep(us, t, req) ==
    LET d == Dispatch(RDelete, req.bearer, t)
        pid == ParseUint(req.id)
    IN  IF d.halt THEN Answer(us, Halted(RDelete, req, d))
        ELSE IF ~pid.ok
        THEN Answer(us, Response(RDelete, req, "DeleteUser", d.auth, 400,
                                 "Invalid user ID", None, None))
        ELSE IF FindByID(us, pid.value).err # ""
        THEN Answer(us, Response(RDelete, req, "DeleteUser", d.auth, 404,
                                 IF FindByID(us, pid.value).err = ErrRecordNotFound
                                 THEN "user not found"
                                 ELSE FindByID(us, pid.value).err, None, None))
        ELSE Carry(us, [op |-> "DeleteSoft", req |-> req, auth |-> d.auth,
                        id |-> pid.value])

\* ... then userRepo.Delete and the answer.
DeleteSoftStep(us, f) ==
    LET r == DeleteRow(us, f.id)
    IN  IF r.err # ""
        THEN Answer(r.users, Response(RDelete, f.req, "DeleteUser", f.auth, 404,
                                      r.err, None, None))
        ELSE Answer(r.users, Response(RDelete, f.req, "DeleteUser", f.auth, 200,
                                      "User deleted successfully", None, None))

\* A request under /api/v1/admin, where the group registers nothing.
AdminResponse(t, req) ==
    LET d == Dispatch(RAdmin, req.bearer, t)
    IN  IF d.halt THEN Halted(RAdmin, req, d)
        ELSE Response(RAdmin, req, "Admin", d.auth, 200, "OK", None, None)

\* GET /health, GET /ready (handler.HealthHandler)
HealthResponse(t, req) ==
    LET d == Dispatch(RHealth, req.bearer, t)
    IN  IF d.halt THEN Halted(RHealth, req, d)
        ELSE Response(RHealth, req, "Health", None, 200, "Service is running",
                      [status |-> "healthy"], None)

ReadyResponse(t, req) ==
    LET d == Dispatch(RReady, req.bearer, t)
    IN  IF d.halt THEN Halted(RReady, req, d)
        ELSE Response(RReady, req, "Ready", None, 200, "Service is ready",
                      [status |-> "ready"], None)

(***************************************************************************)
(* The state.                                                              *)
(*   users     the users table                                             *)
(*   now       the clock                                                   *)
(*   wallet    the token the client holds (None before the first Login)    *)
(*   inflight  per worker, the request it is in the middle of              *)
(*   out       the response written by the last step, in brief (None when  *)
(*             the step wrote none)                                        *)
(***************************************************************************)
\* What database/seeder puts in the table.
SeedAdmin(isActive) ==
    User(1, "Admin User", AdminEmail,
         SeedHash,
         "admin", isActive)

SeedUser ==
    User(2, "Regular User", UserEmail,
         SeedHash,
         "user", TRUE)

\* Seeder.seedUsers: the rows to seed, as built before the INSERT.
SeedUsers == <<[SeedAdmin(TRUE) EXCEPT !.ID = 0], [SeedUser EXCEPT !.ID = 0]>>

\* The table as the server finds it: empty after a migration ...
Init ==
    /\ users = << >>
    /\ now = 0
    /\ wallet = None
    /\ inflight = [w \in Workers |-> Idle]
    /\ out = None
    /\ phase = "serving"
    /\ deps = [database |-> TRUE, cache |-> TRUE, port |-> TRUE]
    /\ seq = 0
    /\ seeder = Idle

\* ... or seeded, the administrator's is_active column being what the
\* operator left in it.
InitSeeded ==
    /\ users \in {<<SeedAdmin(a), SeedUser>> : a \in BOOLEAN}
    /\ now = 0
    /\ wallet = None
    /\ inflight = [w \in Workers |-> Idle]
    /\ out = None
    /\ phase = "serving"
    /\ deps = [database |-> TRUE, cache |-> TRUE, port |-> TRUE]
    /\ seq = 2
    /\ seeder = Idle

Brief(resp) ==
    IF resp = None THEN None
    ELSE [route |-> resp.route, by |-> resp.by, status |-> resp.status,
          message |-> resp.message]

\* What a client can put in the Authorization header: nothing, noise, the
\* token it holds, or that token with its expiry pushed back.
Tamper(token) ==
    [token EXCEPT !.payload = [i \in DOMAIN @ |->
        IF @[i][1] = "exp" THEN <<"exp", @[i][2] + MaxTime + 1>> ELSE @[i]]]

Held == IF wallet = None THEN {} ELSE {wallet}
Bearers == {None, Garbage} \cup Held \cup {Tamper(k) : k \in Held}

\* The bodies requests carry: the well-formed ones, and for each binding rule
\* one body that breaks it.
RegisterBodies ==
    [name : {"Ann"}, email : Emails, password : {SeedPassword}] \cup
    {Malformed,
     [name |-> "", email |-> "", password |-> ""],
     [name |-> "A", email |-> "a@x.com", password |-> SeedPassword],
     [name |-> "Ann", email |-> "not-an-email", password |-> SeedPassword],
     [name |-> "Ann", email |-> "a@x.com", password |-> "12345"]}

Credentials == [email : Emails \cup {AdminEmail}, password : Passwords]

LoginBodies ==
    Credentials \cup
    {Malformed,
     [email |-> "", password |-> ""],
     [email |-> "not-an-email", password |-> SeedPassword]}

UpdateBodies ==
    [name : {"Bob", ""}, email : Emails \cup {""},
     password : {NewPassword, ""}] \cup
    {Malformed,
     [name |-> "A", email |-> "", password |-> ""],
     [name |-> "", email |-> "not-an-email", password |-> ""],
     [name |-> "", email |-> "", password |-> "12345"]}

ListQueries == [page : PageParams, limit : LimitParams]

\* The requests of a gated route that clients send: under the held token any
\* id and body, under each other bearer one of them.
Requests(ids, bodies) ==
    {Req(b, i, y) : b \in Held, i \in ids, y \in bodies} \cup
    {Req(b, CHOOSE i \in ids : TRUE, CHOOSE y \in bodies : TRUE) : b \in Bearers}

\* A request is served, once the server listens, by the first worker that is
\* free.
Free(w) ==
    /\ phase = "serving"
    /\ inflight[w] = Idle
    /\ \A v \in Workers : v < w => inflight[v] # Idle

\* A step of worker w with result r.
Move(w, r) ==
    /\ users' = r.users
    /\ inflight' = [inflight EXCEPT ![w] = r.flight]
    /\ out' = Brief(r.resp)
    /\ UNCHANGED <<now, wallet, phase, deps, seeder>>

Step(w, r) == Move(w, r) /\ UNCHANGED seq

\* A request that worker w answers in one step.
Reply(w, resp) ==
    /\ Free(w)
    /\ out' = Brief(resp)
    /\ UNCHANGED <<users, now, inflight, phase, deps, seq, seeder>>

Tick ==
    /\ now < MaxTime
    /\ now' = now + 1
    /\ out' = None
    /\ UNCHANGED <<users, wallet, inflight, phase, deps, seq, seeder>>

Health(w) == Reply(w, HealthResponse(now, Req(None, Absent, None))) /\ UNCHANGED wallet

Ready(w) == Reply(w, ReadyResponse(now, Req(None, Absent, None))) /\ UNCHANGED wallet

\* The clients send a registration only while the sequence has a value left
\* for it below the bound, beside the values still to be drawn (by the
\* registrations in flight that have not drawn theirs and by a run of the
\* seeder); a request, once taken, runs to its end.
Room(n) ==
    LET Pending ==
            Cardinality({w \in Workers :
                            inflight[w].op \in {"RegisterFind", "RegisterCreate"}})
            + (IF seeder = Idle THEN 0
               ELSE IF seeder.op = "SeedInsert" THEN Len(SeedUsers) - seeder.k
               ELSE Len(SeedUsers) - seeder.k + 1)
    IN  seq + Pending + n <= MaxUsers

Register(w, body) ==
    /\ Free(w)
    /\ LET r == RegisterStep(users, now, Req(None, Absent, body))
       IN  /\ r.flight.op = "RegisterFind" => Room(1)
           /\ Step(w, r)

RegisterFind(w) ==
    /\ inflight[w].op = "RegisterFind"
    /\ \E salt \in Salts : Step(w, RegisterFindStep(users, inflight[w], salt))

\* The step draws from the sequence what CreateDraw draws.
RegisterCreate(w) ==
    /\ inflight[w].op = "RegisterCreate"
    /\ LET r == RegisterCreateStep(users, seq, inflight[w])
       IN  /\ seq' = r.seq
           /\ Move(w, r)

RegisterInsert(w) ==
    /\ inflight[w].op = "RegisterInsert"
    /\ Step(w, RegisterInsertStep(users, inflight[w]))

\* The client keeps the token it is given, or goes on with the one it has.
LoginRequest(w, body) ==
    LET resp == LoginResponse(users, now, Req(None, Absent, body))
    IN  /\ Reply(w, resp)
        /\ wallet' \in IF resp.status = 200 THEN {wallet, resp.data.Token} ELSE {wallet}

GetCurrentUser(w, req) ==
    Reply(w, GetCurrentUserResponse(users, now, req)) /\ UNCHANGED wallet

GetUser(w, req) ==
    Reply(w, GetUserResponse(users, now, req)) /\ UNCHANGED wallet

GetUsers(w, req) ==
    /\ Free(w)
    /\ Step(w, GetUsersStep(users, now, req))

GetUsersFind(w) ==
    /\ inflight[w].op = "GetUsersFind"
    /\ \E order \in Orders(Visible(users)) :
          Step(w, GetUsersFindStep(users, inflight[w], order))

UpdateUser(w, req) ==
    /\ Free(w)
    /\ \E salt \in Salts : Step(w, UpdateUserStep(users, now, req, salt))

UpdateCheckEmail(w) ==
    /\ inflight[w].op = "UpdateCheckEmail"
    /\ \E salt \in Salts : Step(w, UpdateCheckEmailStep(users, inflight[w], salt))

UpdateSave(w) ==
    /\ inflight[w].op = "UpdateSave"
    /\ Step(w, UpdateSaveStep(users, inflight[w]))

UpdateUpsert(w) ==
    /\ inflight[w].op = "UpdateUpsert"
    /\ Step(w, UpdateUpsertStep(users, inflight[w]))

DeleteUser(w, req) ==
    /\ Free(w)
    /\ Step(w, DeleteUserStep(users, now, req))

DeleteSoft(w) ==
    /\ inflight[w].op = "DeleteSoft"
    /\ Step(w, DeleteSoftStep(users, inflight[w]))

AdminRequest(w, req) ==
    Reply(w, AdminResponse(now, req)) /\ UNCHANGED wallet

(***************************************************************************)
(* The seeder: a program of its own on the same database.  For each of its *)
(* two users it looks the email up and, when the lookup fails, inserts the *)
(* row; the first INSERT that fails ends the run.                          *)
(***************************************************************************)
\* Where the seeder goes after user k.
SeedAfter(k) ==
    IF k < Len(SeedUsers) THEN [op |-> "SeedFind", k |-> k + 1] ELSE Idle

\* db.Where("email = ?", user.Email).First(&existing): the row is skipped when
\* the lookup returns no error, and inserted on any error.
SeedFindStep(us, k) ==
    IF FindByEmail(us, SeedUsers[k].Email).err = ""
    THEN SeedAfter(k)
    ELSE [op |-> "SeedCreate", k |-> k]

\* Seeder.Seed is run, while the sequence has values left for its INSERTs.
SeedStart ==
    /\ seeder = Idle
    /\ Room(Len(SeedUsers))
    /\ seeder' = [op |-> "SeedFind", k |-> 1]
    /\ UNCHANGED <<users, now, wallet, inflight, out, phase, deps, seq>>

SeedFind ==
    /\ seeder.op = "SeedFind"
    /\ seeder' = SeedFindStep(users, seeder.k)
    /\ UNCHANGED <<users, now, wallet, inflight, out, phase, deps, seq>>

\* db.Create(&user): the INSERT draws the id ...
SeedCreate ==
    /\ seeder.op = "SeedCreate"
    /\ LET r == CreateDraw(seq, SeedUsers[seeder.k])
       IN  /\ seq' = r.seq
           /\ seeder' = IF r.err # "" THEN Idle
                        ELSE [op |-> "SeedInsert", k |-> seeder.k, user |-> r.user]
    /\ UNCHANGED <<users, now, wallet, inflight, out, phase, deps>>

\* ... and the row is inserted, or refused: an error ends the run.
SeedInsert ==
    /\ seeder.op = "SeedInsert"
    /\ LET r == CreateInsert(users, seeder.user)
       IN  /\ users' = r.users
           /\ seeder' = IF r.err # "" THEN Idle ELSE SeedAfter(seeder.k)
    /\ UNCHANGED <<now, wallet, inflight, out, phase, deps, seq>>

(***************************************************************************)
(* Specification Spec: a freshly migrated database behind one worker, so   *)
(* requests are served one after the other; every route with every kind of *)
(* body; within the lifetime of the tokens issued.                         *)
(***************************************************************************)
One == {1}

Next ==
    \/ \E w \in One : Health(w)
    \/ \E w \in One : Ready(w)
    \/ \E w \in One, body \in RegisterBodies : Register(w, body)
    \/ \E w \in One : RegisterFind(w)
    \/ \E w \in One : RegisterCreate(w)
    \/ \E w \in One : RegisterInsert(w)
    \/ \E w \in One, body \in LoginBodies : LoginRequest(w, body)
    \/ \E w \in One, req \in Requests({Absent}, {None}) : GetCurrentUser(w, req)
    \/ \E w \in One, req \in Requests(IdParams, {None}) : GetUser(w, req)
    \/ \E w \in One, req \in Requests({Absent}, ListQueries) : GetUsers(w, req)
    \/ \E w \in One : GetUsersFind(w)
    \/ \E w \in One, req \in Requests(IdParams, UpdateBodies) : UpdateUser(w, req)
    \/ \E w \in One : UpdateCheckEmail(w)
    \/ \E w \in One : UpdateSave(w)
    \/ \E w \in One, req \in Requests(IdParams, {None}) : DeleteUser(w, req)
    \/ \E w \in One : DeleteSoft(w)
    \/ \E w \in One, req \in Requests({Absent}, {None}) : AdminRequest(w, req)

Spec == Init /\ [][Next]_vars

(***************************************************************************)
(* Specification SpecTime: the seeded database behind one worker, with the *)
(* clock running past the expiry of the tokens issued.  No password of the *)
(* model opens a seeded account as seeded: the clients register an account *)
(* of their own, and with its token give the seeded accounts a password.   *)
(***************************************************************************)
SeededLogins == [email : {AdminEmail, UserEmail, "a@x.com"}, password : Passwords]

\* The account the clients register for themselves.
ConcRegister == [name |-> "Ann", email |-> "a@x.com", password |-> SeedPassword]

\* The requests that change the seeded table: they rename the administrator,
\* give that account a password and delete it; one asks for the email of the
\* clients' own account.
SeededUpdates == {[name |-> "Bob", email |-> "", password |-> ""],
                  [name |-> "", email |-> ConcRegister.email, password |-> ""],
                  [name |-> "", email |-> "", password |-> NewPassword]}
SeededIds == {"1"}
DefaultQueries == {[page |-> Absent, limit |-> Absent]}

NextTime ==
    \/ Tick
    \/ \E w \in One : Health(w)
    \/ \E w \in One : Ready(w)
    \/ \E w \in One, body \in {[ConcRegister EXCEPT !.email = AdminEmail],
                                ConcRegister} : Register(w, body)
    \/ \E w \in One : RegisterFind(w)
    \/ \E w \in One : RegisterCreate(w)
    \/ \E w \in One : RegisterInsert(w)
    \/ \E w \in One, body \in SeededLogins : LoginRequest(w, body)
    \/ \E w \in One, req \in Requests({Absent}, {None}) : GetCurrentUser(w, req)
    \/ \E w \in One, req \in Requests(SeededIds, {None}) : GetUser(w, req)
    \/ \E w \in One, req \in Requests({Absent}, DefaultQueries) : GetUsers(w, req)
    \/ \E w \in One : GetUsersFind(w)
    \/ \E w \in One, req \in Requests(SeededIds, SeededUpdates) : UpdateUser(w, req)
    \/ \E w \in One : UpdateCheckEmail(w)
    \/ \E w \in One : UpdateSave(w)
    \/ \E w \in One, req \in Requests(SeededIds, {None}) : DeleteUser(w, req)
    \/ \E w \in One : DeleteSoft(w)
    \/ \E w \in One, req \in Requests({Absent}, {None}) : AdminRequest(w, req)

SpecTime == InitSeeded /\ [][NextTime]_vars

(***************************************************************************)
(* Specification SpecConc: a freshly migrated database behind two workers,  *)
(* whose repository calls interleave with each other and with the          *)
(* seeder's; the clients register an account, log in to it, and with its   *)
(* token read, change and delete user 1; they also register under the      *)
(* email the updates move that user to.                                    *)
(***************************************************************************)
ConcLogin == [email |-> ConcRegister.email, password |-> ConcRegister.password]

RaceRegister == [name |-> "Ann", email |-> "b@x.com", password |-> SeedPassword]

ConcUpdates == {[name |-> "Bob", email |-> "", password |-> ""],
                [name |-> "", email |-> RaceRegister.email, password |-> ""]}

HeldRequests(ids, bodies) == {Req(b, i, y) : b \in Held, i \in ids, y \in bodies}

NextConc ==
    \/ SeedStart
    \/ SeedFind
    \/ SeedCreate
    \/ SeedInsert
    \/ \E w \in Workers, body \in {ConcRegister, RaceRegister} : Register(w, body)
    \/ \E w \in Workers : RegisterFind(w)
    \/ \E w \in Workers : RegisterCreate(w)
    \/ \E w \in Workers : RegisterInsert(w)
    \/ \E w \in Workers : LoginRequest(w, ConcLogin)
    \/ \E w \in Workers, req \in HeldRequests(SeededIds, {None}) : GetUser(w, req)
    \/ \E w \in Workers, req \in HeldRequests(SeededIds, ConcUpdates) : UpdateUser(w, req)
    \/ \E w \in Workers : UpdateCheckEmail(w)
    \/ \E w \in Workers : UpdateSave(w)
    \/ \E w \in Workers : UpdateUpsert(w)
    \/ \E w \in Workers, req \in HeldRequests(SeededIds, {None}) : DeleteUser(w, req)
    \/ \E w \in Workers : DeleteSoft(w)

SpecConc == Init /\ [][NextConc]_vars

(***************************************************************************)
(* Specification SpecOps: the process from its start: main loads the       *)
(* configuration, connects to the database and to the cache and listens;   *)
(* once it serves, one worker answers requests on the seeded table while   *)
(* the database may become unreachable and come back, and a request may    *)
(* panic; on the operator's signal it shuts down, waiting for the requests *)
(* in flight or, past the deadline, cutting them off.  Signals that arrive *)
(* before the server listens are left out.                                 *)
(***************************************************************************)
\* Faulty variant: a start that gives up when the cache cannot be reached.
BootCacheRequired(ph, d) ==
    CASE ph = "config" -> "database"
      [] ph = "database" -> IF d.database THEN "cache" ELSE "exited"
      [] ph = "cache" -> IF d.cache THEN "listen" ELSE "exited"
      [] ph = "listen" -> IF d.port THEN "serving" ELSE "exited"
      [] OTHER -> ph

\* main: the phase that follows ph.  LoadConfig returns no error; a failure
\* of NewDatabase or of ListenAndServe is fatal, one of NewRedisClient is
\* logged.
Boot(ph, d) ==
    CASE ph = "config" -> "database"
      [] ph = "database" -> IF d.database THEN "cache" ELSE "exited"
      [] ph = "cache" -> "listen"
      [] ph = "listen" -> IF d.port THEN "serving" ELSE "exited"
      [] OTHER -> ph

\* What panics carry.
PanicValues == {"runtime error: invalid memory address or nil pointer dereference"}

\* Faulty variant: a recovery that tells the client what the panic was.
RecoveryLeaky(route, req, v) ==
    Response(route, req, "RecoveryMiddleware", None, 500, v, None, None)

\* middleware.RecoveryMiddleware: the answer to a request that panicked with v
RecoveryMiddleware(route, req, v) ==
    Response(route, req, "RecoveryMiddleware", None, 500,
             "Internal server error", None, None)

\* The route of a request in flight.
FlightRoute(f) ==
    CASE f.op \in {"RegisterFind", "RegisterCreate", "RegisterInsert"} -> RRegister
      [] f.op = "GetUsersFind" -> RList
      [] f.op \in {"UpdateCheckEmail", "UpdateSave", "UpdateUpsert"} -> RPut
      [] f.op = "DeleteSoft" -> RDelete

\* A panic in the request a worker is processing: the stack unwinds to the
\* recovery middleware, the worker is done with the request.
PanicStep(us, f, v) == Answer(us, RecoveryMiddleware(FlightRoute(f), f.req, v))

InitOps ==
    /\ users \in {<<SeedAdmin(a), SeedUser>> : a \in BOOLEAN}
    /\ now = 0
    /\ wallet = None
    /\ inflight = [w \in Workers |-> Idle]
    /\ out = None
    /\ phase = "config"
    /\ deps \in Deps
    /\ seq = 2
    /\ seeder = Idle

Start ==
    /\ phase \in {"config", "database", "cache", "listen"}
    /\ phase' = Boot(phase, deps)
    /\ UNCHANGED <<users, now, wallet, inflight, out, deps, seq, seeder>>

\* The database becomes unreachable, or reachable again.
Outage ==
    /\ phase \in {"serving", "stopping"}
    /\ deps' = [deps EXCEPT !.database = ~deps.database]
    /\ UNCHANGED <<users, now, wallet, inflight, out, phase, seq, seeder>>

\* main, at <-quit: the operator's SIGINT or SIGTERM reaches the serving
\* process, and server.Shutdown closes the listener.
Signal ==
    /\ phase = "serving"
    /\ phase' = "stopping"
    /\ UNCHANGED <<users, now, wallet, inflight, out, deps, seq, seeder>>

\* server.Shutdown returns nil once no request is in flight: main returns.
Stopped ==
    /\ phase = "stopping"
    /\ \A w \in Workers : inflight[w] = Idle
    /\ phase' = "exited"
    /\ UNCHANGED <<users, now, wallet, inflight, out, deps, seq, seeder>>

\* What the statement a request in flight is about to send leaves in the
\* database.
PendingWrite(us, sq, f) ==
    CASE f.op = "RegisterCreate" ->
             [users |-> us, seq |-> RegisterCreateStep(us, sq, f).seq]
      [] f.op = "RegisterInsert" ->
             [users |-> RegisterInsertStep(us, f).users, seq |-> sq]
      [] f.op = "UpdateSave" -> [users |-> UpdateSaveStep(us, f).users, seq |-> sq]
      [] f.op = "UpdateUpsert" ->
             [users |-> UpdateUpsertStep(us, f).users, seq |-> sq]
      [] f.op = "DeleteSoft" -> [users |-> DeleteSoftStep(us, f).users, seq |-> sq]
      [] OTHER -> [users |-> us, seq |-> sq]

\* The database after the calls of the requests fs, made in that order.
RECURSIVE CutOff(_, _, _)
CutOff(us, sq, fs) ==
    IF Len(fs) = 0 THEN [users |-> us, seq |-> sq]
    ELSE LET r == PendingWrite(us, sq, fs[1])
         IN  CutOff(r.users, r.seq, [i \in 1..(Len(fs) - 1) |-> fs[i + 1]])

\* server.Shutdown returns the deadline's error while a request is still in
\* flight: logger.Fatalf ends the process, and the requests with it, without
\* an answer.  Nothing makes main wait for the handlers: a request is cut
\* off before its next statement (an INSERT that has drawn its id is then
\* rolled back, the value of the sequence spent), or after the statement has
\* been sent and before the answer is written.
Forced ==
    /\ phase = "stopping"
    /\ \E w \in Workers : inflight[w] # Idle
    /\ \E made \in SUBSET {w \in Workers : inflight[w] # Idle} :
          \E order \in Orders(made) :
              LET r == CutOff(users, seq, [i \in DOMAIN order |-> inflight[order[i]]])
              IN  users' = r.users /\ seq' = r.seq
    /\ phase' = "exited"
    /\ inflight' = [w \in Workers |-> Idle]
    /\ out' = None
    /\ UNCHANGED <<now, wallet, deps, seeder>>

\* A request that panics before its handler has called the repository ...
PanicAtOnce(w, route, v) ==
    /\ Reply(w, RecoveryMiddleware(route, Req(None, Absent, None), v))
    /\ UNCHANGED wallet

\* ... or between two calls.
Panic(w, v) ==
    /\ inflight[w] # Idle
    /\ Step(w, PanicStep(users, inflight[w], v))

NextOps ==
    \/ Start
    \/ Signal
    \/ Stopped
    \/ Forced
    \/ Outage
    \/ \E w \in One : Register(w, ConcRegister)
    \/ \E w \in One : RegisterFind(w)
    \/ \E w \in One : RegisterCreate(w)
    \/ \E w \in One : RegisterInsert(w)
    \/ \E w \in One : LoginRequest(w, ConcLogin)
    \/ \E w \in One, req \in HeldRequests(SeededIds, {None}) : GetUser(w, req)
    \/ \E w \in One, req \in HeldRequests({Absent}, DefaultQueries) : GetUsers(w, req)
    \/ \E w \in One : GetUsersFind(w)
    \/ \E w \in One, req \in HeldRequests(SeededIds, ConcUpdates) : UpdateUser(w, req)
    \/ \E w \in One : UpdateCheckEmail(w)
    \/ \E w \in One : UpdateSave(w)
    \/ \E w \in One, req \in HeldRequests(SeededIds, {None}) : DeleteUser(w, req)
    \/ \E w \in One : DeleteSoft(w)
    \/ \E w \in One, route \in Registered, v \in PanicValues : PanicAtOnce(w, route, v)
    \/ \E w \in One, v \in PanicValues : Panic(w, v)

\* main runs on: a start that can take its next step takes it.
SpecOps == InitOps /\ [][NextOps]_vars /\ WF_vars(Start)

(***************************************************************************)
(* Properties of registration and login (Spec, SpecTime).                  *)
(***************************************************************************)
\* C1: a Register request whose email an existing user holds fails with
\* BadRequest (400, "email already registered") and leaves the table as it
\* was; when only a soft-deleted row holds the email the insert is refused by
\* the unique index, again with 400 and the table as it was.
C1_DuplicateRegisterFails ==
    /\ \A body \in RegisterBodies, salt \in Salts :
          (/\ BindRegister(body).ok
           /\ \E i \in DOMAIN users : ~users[i].Deleted /\ users[i].Email = body.email)
          => LET a == RegisterStep(users, now, Req(None, Absent, body))
                 r == RegisterFindStep(a.users, a.flight, salt)
             IN  /\ a.users = users
                 /\ a.flight.op = "RegisterFind"
                 /\ r.users = users
                 /\ r.flight = Idle
                 /\ r.resp # None
                 /\ r.resp.status = 400
                 /\ r.resp.message = "email already registered"
    /\ \A w \in Workers, salt \in Salts :
          (/\ inflight[w].op = "RegisterFind"
           /\ \E i \in DOMAIN users :
                 ~users[i].Deleted /\ users[i].Email = inflight[w].req.body.email)
          => LET r == RegisterFindStep(users, inflight[w], salt)
             IN  /\ r.users = users
                 /\ r.flight = Idle
                 /\ r.resp # None
                 /\ r.resp.status = 400
                 /\ r.resp.message = "email already registered"
    /\ \A w \in Workers :
          (/\ inflight[w].op \in {"RegisterCreate", "RegisterInsert"}
           /\ \E i \in DOMAIN users : users[i].Email = inflight[w].user.Email)
          => LET f == inflight[w]
                 d == IF f.op = "RegisterCreate"
                      THEN RegisterCreateStep(users, seq, f)
                      ELSE Carry(users, f)
                 r == RegisterInsertStep(d.users, d.flight)
             IN  /\ d.resp = None
                 /\ r.users = users
                 /\ r.flight = Idle
                 /\ r.resp.status = 400

\* A registration under a held email was refused.
C1_Witness ==
    /\ out # None
    /\ out.route = RRegister
    /\ out.status = 400
    /\ out.message = "email already registered"
    /\ \E i \in DOMAIN users : ~users[i].Deleted

\* C2: a Register with valid name, email and password whose email no row
\* holds succeeds (201) and stores the row; a Login with the same email and
\* password right after it succeeds (200) and its token verifies to the new
\* row's id, email and role.
C2_RegisterThenLogin ==
    /\ \A body \in RegisterBodies, salt \in Salts :
          (/\ BindRegister(body).ok
           /\ \A i \in DOMAIN users : users[i].Email # body.email)
          => LET a == RegisterStep(users, now, Req(None, Absent, body))
             IN  /\ a.flight.op = "RegisterFind"
                 /\ RegisterFindStep(a.users, a.flight, salt).flight.op
                       = "RegisterCreate"
    /\ \A w \in Workers, salt \in Salts :
          (/\ inflight[w].op = "RegisterFind"
           /\ \A i \in DOMAIN users : users[i].Email # inflight[w].req.body.email)
          => RegisterFindStep(users, inflight[w], salt).flight.op = "RegisterCreate"
    /\ \A w \in Workers :
          (/\ inflight[w].op \in {"RegisterCreate", "RegisterInsert"}
           /\ \A i \in DOMAIN users : users[i].Email # inflight[w].user.Email)
          => LET f == inflight[w]
                 d == IF f.op = "RegisterCreate"
                      THEN RegisterCreateStep(users, seq, f)
                      ELSE Carry(users, f)
                 r == RegisterInsertStep(d.users, d.flight)
                 id == IF f.op = "RegisterCreate" THEN seq + 1 ELSE f.user.ID
                 login == LoginResponse(r.users, now,
                              Req(None, Absent, [email |-> f.req.body.email,
                                                 password |-> f.req.body.password]))
             IN  /\ d.resp = None
                 /\ d.users = users
                 /\ r.resp.status = 201
                 /\ r.resp.data = [ID |-> id, Name |-> f.req.body.name,
                                   Email |-> f.req.body.email, Role |-> "user",
                                   IsActive |-> TRUE]
                 /\ DOMAIN r.users = DOMAIN users \cup {id}
                 /\ id \notin DOMAIN users
                 /\ UserResponse(r.users[id]) = r.resp.data
                 /\ login.status = 200
                 /\ ValidateToken(login.data.Token, now)
                        = [ok |-> TRUE, UserID |-> id,
                           Email |-> f.req.body.email, Role |-> "user"]

\* A second account is about to be inserted under an email no row holds.
C2_Witness ==
    \E w \in Workers :
        /\ inflight[w].op = "RegisterInsert"
        /\ DOMAIN users # {}
        /\ \A i \in DOMAIN users : users[i].Email # inflight[w].user.Email

\* C3: a Login under an email no user holds and a Login under an existing
\* email with a wrong password get the same response: 401, "invalid email or
\* password", no data.
C3_LoginIndistinguishable ==
    \A unknown \in Credentials, wrong \in Credentials :
        (/\ \A i \in DOMAIN users : ~users[i].Deleted => users[i].Email # unknown.email
         /\ \E i \in DOMAIN users :
               /\ ~users[i].Deleted
               /\ users[i].Email = wrong.email
               /\ ~CheckPassword(wrong.password, users[i].Password))
        => LET a == LoginResponse(users, now, Req(None, Absent, unknown))
               b == LoginResponse(users, now, Req(None, Absent, wrong))
           IN  /\ a.status = 401
               /\ a.message = "invalid email or password"
               /\ b.status = a.status
               /\ b.message = a.message
               /\ a.data = None /\ b.data = None
               /\ a.error = b.error

\* A Login was refused while one email is held and another is not.
C3_Witness ==
    /\ out # None
    /\ out.route = RLogin
    /\ out.status = 401
    /\ out.message = "invalid email or password"
    /\ \E i \in DOMAIN users : ~users[i].Deleted
    /\ \E e \in Emails : \A i \in DOMAIN users : users[i].Email # e

\* C4: a Login with the correct email and password of an account whose
\* active flag is false is answered Forbidden (403, "account is not active")
\* and carries no token.
C4_InactiveLoginForbidden ==
    \A body \in SeededLogins :
        (\E i \in DOMAIN users :
            /\ ~users[i].Deleted
            /\ users[i].Email = body.email
            /\ ~users[i].IsActive
            /\ CheckPassword(body.password, users[i].Password))
        => LET r == LoginResponse(users, now, Req(None, Absent, body))
           IN  /\ r.status = 403
               /\ r.message = "account is not active"
               /\ r.data = None

(***************************************************************************)
(* Properties of Update and Delete (Spec, SpecConc).                       *)
(***************************************************************************)
\* C5: with requests served one after the other, the write of an Update
\* changes in the stored row exactly the fields the request supplies
\* non-empty (the password as a hash of the supplied one) and nothing else,
\* in that row or in any other; a refused write changes nothing.
C5_PartialUpdate ==
    \A w \in Workers :
        inflight[w].op = "UpdateSave"
        => LET f == inflight[w]
               body == f.req.body
               old == users[f.id]
               r == UpdateSaveStep(users, f)
               new == r.users[f.id]
           IN  /\ DOMAIN r.users = DOMAIN users
               /\ \A i \in DOMAIN users : i # f.id => r.users[i] = users[i]
               /\ IF r.resp.status = 200
                  THEN /\ new.Name = IF body.name # "" THEN body.name ELSE old.Name
                       /\ new.Email = IF body.email # "" THEN body.email ELSE old.Email
                       /\ IF body.password # ""
                          THEN CheckPassword(body.password, new.Password)
                          ELSE new.Password = old.Password
                       /\ new.ID = old.ID
                       /\ new.Role = old.Role
                       /\ new.IsActive = old.IsActive
                       /\ new.Deleted = old.Deleted
                       /\ r.resp.data = UserResponse(new)
                  ELSE r.users = users

\* An Update that supplies only an email, different from the stored one, is
\* about to be written.
C5_Witness ==
    \E w \in Workers :
        /\ inflight[w].op = "UpdateSave"
        /\ inflight[w].req.body.email # ""
        /\ inflight[w].req.body.name = ""
        /\ inflight[w].req.body.password = ""
        /\ users[inflight[w].id].Email # inflight[w].req.body.email
        /\ EmailIndexAllows(users, inflight[w].id, inflight[w].req.body.email)

\* C6: an Update of user A that supplies an email a different user B holds
\* fails with Conflict (409) and leaves the table as it was, whatever name or
\* password the request also supplies.
C6_TakenEmailConflict ==
    \A w \in Workers :
        (/\ inflight[w].op = "UpdateCheckEmail"
         /\ \E i \in DOMAIN users :
               /\ i # inflight[w].id
               /\ ~users[i].Deleted
               /\ users[i].Email = inflight[w].req.body.email)
        => \A salt \in Salts :
              LET r == UpdateCheckEmailStep(users, inflight[w], salt)
              IN  /\ r.users = users
                  /\ r.resp # None
                  /\ r.resp.status = 409

\* C7: once a row carries the deleted marker it stays stored with the marker
\* set, and GetByID of its id fails with "user not found", after every step.
C7_DeletedStaysNotFound ==
    [][\A i \in DOMAIN users :
          users[i].Deleted
          => /\ i \in DOMAIN users'
             /\ users'[i].Deleted
             /\ GetByID(users', i).err = "user not found"]_vars

(***************************************************************************)
(* Properties of the gates and the tokens (SpecTime).                      *)
(***************************************************************************)
\* C8: a request to a route of the users group whose bearer does not verify
\* is answered 401 by AuthMiddleware, and no step of the handler is taken
\* (nothing is written, nothing is carried on); health, readiness, register
\* and login are answered by their handlers whatever bearer comes with them.
C8_GatedRoutesVerifyToken ==
    LET Refused(r) ==
            /\ r.users = users
            /\ r.flight = Idle
            /\ r.resp # None
            /\ r.resp.by = "AuthMiddleware"
            /\ r.resp.status = 401
    IN  \A b \in Bearers :
          /\ ~ValidateToken(b, now).ok
             => /\ Refused(Answer(users,
                           GetCurrentUserResponse(users, now, Req(b, Absent, None))))
                /\ \A id \in IdParams :
                      /\ Refused(Answer(users,
                              GetUserResponse(users, now, Req(b, id, None))))
                      /\ Refused(DeleteUserStep(users, now, Req(b, id, None)))
                      /\ \A body \in UpdateBodies, salt \in Salts :
                            Refused(UpdateUserStep(users, now, Req(b, id, body), salt))
                /\ \A q \in ListQueries :
                      Refused(GetUsersStep(users, now, Req(b, Absent, q)))
          /\ HealthResponse(now, Req(b, Absent, None)).by = "Health"
          /\ ReadyResponse(now, Req(b, Absent, None)).by = "Ready"
          /\ \A body \in LoginBodies :
                LoginResponse(users, now, Req(b, Absent, body)).by = "Login"
          /\ \A body \in RegisterBodies :
                LET r == RegisterStep(users, now, Req(b, Absent, body))
                IN  IF r.resp = None THEN r.flight.op = "RegisterFind"
                    ELSE r.resp.by = "Register"

\* A PUT was refused by AuthMiddleware while the client holds an expired token.
C8_Witness ==
    /\ out # None
    /\ out.route = RPut
    /\ out.by = "AuthMiddleware"
    /\ out.status = 401
    /\ wallet # None
    /\ ~ValidateToken(wallet, now).ok

\* C9 (as the code has it): the admin group registers no route, so a request
\* under its prefix is answered 404 by the router whatever its bearer: none,
\* a token with role "user", a token with role "admin".
C9_AdminGroupUnrouted ==
    \A b \in Bearers :
        LET r == AdminResponse(now, Req(b, Absent, None))
        IN  r.status = 404 /\ r.by = "NoRoute"

\* C9 (as the specification has it): under a token that verifies, the request
\* is answered Forbidden when the role is "user" and succeeds when it is
\* "admin".
C9_RoleGate ==
    \A b \in Bearers :
        LET v == ValidateToken(b, now)
            r == AdminResponse(now, Req(b, Absent, None))
        IN  v.ok => IF v.Role = "admin" THEN r.status = 200
                    ELSE r.status = 403 /\ r.by = "RoleMiddleware"

\* A request under the admin prefix was answered 404 while the client holds a
\* token that verifies with role "user".
C9_Witness ==
    /\ out # None
    /\ out.route = RAdmin
    /\ out.status = 404
    /\ wallet # None
    /\ ValidateToken(wallet, now).ok
    /\ Claim(wallet.payload, "role") = "user"

C11_TokenOutlivesAccount ==
    (wallet # None /\ now < Claim(wallet.payload, "exp"))
    => /\ \A route \in UsersGroup :
             LET d == Dispatch(route, wallet, now)
             IN  /\ ~d.halt
                 /\ d.auth = [UserID |-> Claim(wallet.payload, "user_id"),
                              Email |-> Claim(wallet.payload, "email"),
                              Role |-> Claim(wallet.payload, "role")]
       /\ GetCurrentUserResponse(users, now, Req(wallet, Absent, None)).by
             = "GetCurrentUser"
       /\ \A id \in SeededIds :
             /\ GetUserResponse(users, now, Req(wallet, id, None)).by = "GetUser"
             /\ LET r == DeleteUserStep(users, now, Req(wallet, id, None))
                IN  r.resp = None \/ r.resp.by = "DeleteUser"
             /\ \A body \in SeededUpdates, salt \in Salts :
                   LET r == UpdateUserStep(users, now, Req(wallet, id, body), salt)
                   IN  r.resp = None \/ r.resp.by = "UpdateUser"
       /\ \A q \in DefaultQueries :
             GetUsersStep(users, now, Req(wallet, Absent, q)).flight.op = "GetUsersFind"

\* GET /users/me under an unexpired token was answered by its handler, with
\* "user not found": the account of the token is deleted.
C11_Witness ==
    /\ out # None
    /\ out.route = RMe
    /\ out.by = "GetCurrentUser"
    /\ out.status = 404
    /\ wallet # None
    /\ now < Claim(wallet.payload, "exp")
    /\ users[Claim(wallet.payload, "user_id")].Deleted

(***************************************************************************)
(* Properties of the views and of the listing (Spec).                      *)
(***************************************************************************)
\* C12: the user view in the data of every response (Register, Login, GET
\* /users/:id, GET /users, PUT /users/:id, GET /users/me) has the fields id,
\* name, email, role and active flag and no other, none of them a password;
\* the token of a Login carries id, email, role and expiry only; a response
\* that reports a failure has no data.
C12_NoCredentialInViews ==
    LET Public(v) ==
            /\ DOMAIN v = {"ID", "Name", "Email", "Role", "IsActive"}
            /\ \A f \in {"Name", "Email", "Role"} :
                  v[f] \notin Passwords \cup {"12345"}
        Clean(resp) ==
            IF resp.status \in {200, 201} THEN Public(resp.data)
            ELSE resp.data = None
        Quiet(resp) == resp = None \/ Clean(resp)
    IN  /\ \A w \in Workers :
              /\ inflight[w].op = "RegisterFind"
                 => \A salt \in Salts :
                       Quiet(RegisterFindStep(users, inflight[w], salt).resp)
              /\ inflight[w].op = "RegisterCreate"
                 => Quiet(RegisterCreateStep(users, seq, inflight[w]).resp)
              /\ inflight[w].op = "RegisterInsert"
                 => Clean(RegisterInsertStep(users, inflight[w]).resp)
              /\ inflight[w].op = "UpdateSave"
                 => Quiet(UpdateSaveStep(users, inflight[w]).resp)
              /\ inflight[w].op = "UpdateUpsert"
                 => Clean(UpdateUpsertStep(users, inflight[w]).resp)
              /\ inflight[w].op = "GetUsersFind"
                 => \A order \in Orders(Visible(users)) :
                       LET r == GetUsersFindStep(users, inflight[w], order).resp
                       IN  /\ DOMAIN r.data = {"Users", "Meta"}
                           /\ \A k \in DOMAIN r.data.Users : Public(r.data.Users[k])
        /\ \A body \in LoginBodies :
              LET r == LoginResponse(users, now, Req(None, Absent, body))
              IN  IF r.status = 200
                  THEN /\ DOMAIN r.data = {"Token", "User"}
                       /\ Public(r.data.User)
                       /\ {r.data.Token.payload[k][1] : k \in DOMAIN r.data.Token.payload}
                             = {"user_id", "email", "role", "exp"}
                       /\ r.data.Token.sig = Sign(Secret, r.data.Token.payload)
                  ELSE r.data = None
        /\ \A b \in Bearers :
              /\ Clean(GetCurrentUserResponse(users, now, Req(b, Absent, None)))
              /\ \A id \in IdParams : Clean(GetUserResponse(users, now, Req(b, id, None)))

\* A user whose password was changed was returned in a view.
C12_Witness ==
    /\ out # None
    /\ out.route = RGet
    /\ out.status = 200
    /\ \E i \in DOMAIN users :
          ~users[i].Deleted /\ CheckPassword(NewPassword, users[i].Password)

\* C13: for every page and limit value of the query of GET /users, the values
\* handed to the store satisfy page >= 1 and 1 <= limit <= 100, the limit is
\* 10 when the query has none, and the offset the store uses is
\* (page - 1) * limit: not negative, and divided by the limit it gives back
\* page - 1 with nothing left over.
C13_PageAndLimitNormalised ==
    \A w \in Workers :
        inflight[w].op = "GetUsersFind" =>
            LET f == inflight[w]
                offset == GetOffset(f.page, f.limit)
            IN  /\ ~LessThan(f.page, 1)
                /\ f.limit \in 1..100
                /\ f.req.body.limit = Absent => f.limit = 10
                /\ ~IsNeg(offset)
                /\ DivMod(offset, f.limit) = [quot |-> Dec(f.page), rem |-> 0]

\* C14: with N rows that are not deleted, the list of a page >= 1 with a limit
\* from 1 to 100 has min(limit, max(0, N - (page - 1) * limit)) rows, its
\* total is N and its total_pages is N / limit rounded up; deleted rows are
\* counted in neither.  Of 25 rows with limit 10 the metadata reports 3 pages.
C14_PageSizeAndTotals ==
    LET Min(a, b) == IF a < b THEN a ELSE b
        Max(a, b) == IF a > b THEN a ELSE b
        Ceil(n, k) == CHOOSE c \in 0..n : (c - 1) * k < n /\ n <= c * k
        N == Cardinality({id \in DOMAIN users : ~users[id].Deleted})
    IN  /\ BuildMeta(I64(1), 10, 25).TotalPages = 3
        /\ BuildMeta(I64(3), 10, 25).TotalPages = 3
        /\ \A w \in Workers :
              inflight[w].op = "GetUsersFind" =>
                  \A order \in Orders(Visible(users)) :
                      LET f == inflight[w]
                          r == GetUsersFindStep(users, f, order).resp
                          rows == IF GreaterThan(f.page, N) THEN 0
                                  ELSE Min(f.limit,
                                           Max(0, N - (Small(f.page) - 1) * f.limit))
                      IN  /\ r.status = 200
                          /\ Len(r.data.Users) = rows
                          /\ r.data.Meta.Total = N
                          /\ r.data.Meta.TotalPages = Ceil(N, f.limit)

\* C15: with the table unchanged, the list is in a stable order: two
\* executions of the same list(page, limit) return the same rows, and the
\* pages 1..total_pages of one limit, each fetched by a query of its own, are
\* pairwise disjoint and together hold every row that is not deleted.
C15_StableOrder ==
    \A w \in Workers :
        inflight[w].op = "GetUsersFind" =>
            \A o1, o2 \in Orders(Visible(users)) :
                LET f == inflight[w]
                    Ids(page, o) ==
                        LET rows == PageOf(users, o, GetOffset(I64(page), f.limit),
                                           f.limit)
                        IN  {rows[k].ID : k \in DOMAIN rows}
                    pages == 1..BuildMeta(f.page, f.limit,
                                          Cardinality(Visible(users))).TotalPages
                IN  /\ GetUsersFindStep(users, f, o1).resp
                          = GetUsersFindStep(users, f, o2).resp
                    /\ \A p, q \in pages : p # q => Ids(p, o1) \cap Ids(q, o2) = {}
                    /\ UNION {Ids(p, o1) : p \in pages} = Visible(users)

(***************************************************************************)
(* Properties of interleaved requests (SpecConc).                          *)
(***************************************************************************)
\* C16: however the repository calls of Register, Update and Delete
\* interleave, no two rows that are not deleted hold the same email.
C16_EmailsUnique ==
    \A i, j \in DOMAIN users :
        (i # j /\ ~users[i].Deleted /\ ~users[j].Deleted)
        => users[i].Email # users[j].Email

\* A registration and an update raced for one email: the registration has
\* inserted its row, and the update, whose pre-check found the email free, has
\* been refused by the index.
C16_Witness ==
    /\ DOMAIN users = {1, 2}
    /\ users[2].Email = RaceRegister.email
    /\ out # None
    /\ out.route = RPut
    /\ out.message = ErrDuplicatedKey

\* C17 (as stated): when two Register requests for one email that no row
\* holds are in flight together, then however the steps left to them (the
\* pre-check, the draw of the id, the insert) interleave, exactly one of
\* them succeeds (201) and adds its row, and the other adds no row and
\* answers with the store's duplicate-key error.
C17_LoserGetsStoreError ==
    \A v, w \in Workers, salt \in Salts :
        LET Registering(f) ==
                f.op \in {"RegisterFind", "RegisterCreate", "RegisterInsert"}
            RegisterNext(us, sq, f) ==
                CASE f.op = "RegisterFind" ->
                         LET r == RegisterFindStep(us, f, salt)
                         IN  [users |-> r.users, seq |-> sq, flight |-> r.flight,
                              resp |-> r.resp]
                  [] f.op = "RegisterCreate" -> RegisterCreateStep(us, sq, f)
                  [] f.op = "RegisterInsert" ->
                         LET r == RegisterInsertStep(us, f)
                         IN  [users |-> r.users, seq |-> sq, flight |-> r.flight,
                              resp |-> r.resp]
            RECURSIVE Runs(_, _, _, _, _)
            Runs(us, sq, f, g, trace) ==
                IF f.flight = Idle /\ g.flight = Idle
                THEN {[users |-> us, first |-> f.resp, second |-> g.resp,
                       trace |-> trace]}
                ELSE (IF f.flight = Idle THEN {}
                      ELSE LET r == RegisterNext(us, sq, f.flight)
                           IN  Runs(r.users, r.seq, r, g,
                                    Append(trace, <<1, f.flight.op>>)))
                     \cup
                     (IF g.flight = Idle THEN {}
                      ELSE LET r == RegisterNext(us, sq, g.flight)
                           IN  Runs(r.users, r.seq, f, r,
                                    Append(trace, <<2, g.flight.op>>)))
            Lost(o, win, lose, k) ==
                    /\ win.status = 201
                    /\ \E id \in DOMAIN o.users \ DOMAIN users :
                          /\ DOMAIN o.users = DOMAIN users \cup {id}
                          /\ o.users[id].Email = inflight[v].req.body.email
                          /\ UserResponse(o.users[id]) = win.data
                    /\ \A i \in DOMAIN users : o.users[i] = users[i]
                    /\ lose.status = 400
                    /\ lose.data = None
                    /\ lose.message = ErrDuplicatedKey
        IN  (/\ v < w
             /\ Registering(inflight[v])
             /\ Registering(inflight[w])
             /\ inflight[v].req.body.email = inflight[w].req.body.email
             /\ \A i \in DOMAIN users : users[i].Email # inflight[v].req.body.email)
            => \A o \in Runs(users, seq, [flight |-> inflight[v]],
                             [flight |-> inflight[w]], << >>) :
                  \/ Lost(o, o.first, o.second, 2)
                  \/ Lost(o, o.second, o.first, 1)

\* C17: when two Register requests for one email that no row holds are in
\* flight together, then however the steps left to them (the pre-check, the
\* draw of the id, the insert) interleave, exactly one of them succeeds
\* (201) and adds its row, under whichever id it drew, and the other adds
\* no row and is answered 400: with "email already registered" when its
\* pre-check runs after the insert of the first, with the store's
\* duplicate-key error when its pre-check ran before that insert.
C17_OneRegistrationWins ==
    \A v, w \in Workers, salt \in Salts :
        LET Registering(f) ==
                f.op \in {"RegisterFind", "RegisterCreate", "RegisterInsert"}
            RegisterNext(us, sq, f) ==
                CASE f.op = "RegisterFind" ->
                         LET r == RegisterFindStep(us, f, salt)
                         IN  [users |-> r.users, seq |-> sq, flight |-> r.flight,
                              resp |-> r.resp]
                  [] f.op = "RegisterCreate" -> RegisterCreateStep(us, sq, f)
                  [] f.op = "RegisterInsert" ->
                         LET r == RegisterInsertStep(us, f)
                         IN  [users |-> r.users, seq |-> sq, flight |-> r.flight,
                              resp |-> r.resp]
            RECURSIVE Runs(_, _, _, _, _)
            Runs(us, sq, f, g, trace) ==
                IF f.flight = Idle /\ g.flight = Idle
                THEN {[users |-> us, first |-> f.resp, second |-> g.resp,
                       trace |-> trace]}
                ELSE (IF f.flight = Idle THEN {}
                      ELSE LET r == RegisterNext(us, sq, f.flight)
                           IN  Runs(r.users, r.seq, r, g,
                                    Append(trace, <<1, f.flight.op>>)))
                     \cup
                     (IF g.flight = Idle THEN {}
                      ELSE LET r == RegisterNext(us, sq, g.flight)
                           IN  Runs(r.users, r.seq, f, r,
                                    Append(trace, <<2, g.flight.op>>)))
            Before(trace, x, y) ==
                \E i, j \in DOMAIN trace : i < j /\ trace[i] = x /\ trace[j] = y
            Lost(o, win, lose, k) ==
                LET checked == <<k, "RegisterFind">>
                    inserted == <<3 - k, "RegisterInsert">>
                IN  /\ win.status = 201
                    /\ \E id \in DOMAIN o.users \ DOMAIN users :
                          /\ DOMAIN o.users = DOMAIN users \cup {id}
                          /\ o.users[id].Email = inflight[v].req.body.email
                          /\ UserResponse(o.users[id]) = win.data
                    /\ \A i \in DOMAIN users : o.users[i] = users[i]
                    /\ lose.status = 400
                    /\ lose.data = None
                    /\ IF Before(o.trace, inserted, checked)
                       THEN lose.message = "email already registered"
                       ELSE lose.message = ErrDuplicatedKey
        IN  (/\ v < w
             /\ Registering(inflight[v])
             /\ Registering(inflight[w])
             /\ inflight[v].req.body.email = inflight[w].req.body.email
             /\ \A i \in DOMAIN users : users[i].Email # inflight[v].req.body.email)
            => \A o \in Runs(users, seq, [flight |-> inflight[v]],
                             [flight |-> inflight[w]], << >>) :
                  \/ Lost(o, o.first, o.second, 2)
                  \/ Lost(o, o.second, o.first, 1)

\* Both registrations passed the pre-check and drew their ids; the one with
\* the later id has inserted its row, and the other, which drew id 1, has
\* just been refused by the store.
C17_Witness ==
    /\ DOMAIN users = {2}
    /\ seq = 2
    /\ users[2].Email = ConcRegister.email
    /\ out # None
    /\ out.route = RRegister
    /\ out.status = 400
    /\ out.message = ErrDuplicatedKey

\* C18: deleted is terminal: an Update that has loaded its user and comes to
\* write after a Delete has marked the row fails with "user not found", and
\* leaves the table as it is, the marker set.
C18_StaleUpdateFails ==
    \A w \in Workers :
        (/\ inflight[w].op \in {"UpdateSave", "UpdateUpsert"}
         /\ users[inflight[w].id].Deleted)
        => LET f == inflight[w]
               u == IF f.op = "UpdateSave" THEN UpdateSaveStep(users, f)
                    ELSE Carry(users, f)
               r == IF u.resp # None THEN u ELSE UpdateUpsertStep(u.users, u.flight)
           IN  /\ r.users = users
               /\ r.resp.status # 200
               /\ r.resp.message = "user not found"

\* C19: of the Delete requests for one id at most one reports success: a
\* Delete that comes to its write when the row is already marked deleted
\* answers 404 and changes nothing.
C19_SecondDeleteNotFound ==
    \A w \in Workers :
        (/\ inflight[w].op = "DeleteSoft"
         /\ users[inflight[w].id].Deleted)
        => LET r == DeleteSoftStep(users, inflight[w])
           IN  /\ r.users = users
               /\ r.resp.status = 404

\* C20: the Updates of one user that interleave do not fail because of each
\* other, and the last write wins.  A write of an Update to a row that is not
\* deleted, with an email no other row holds, answers 200 and stores exactly
\* the entity the Update built from what it had read, whatever another Update
\* has written since; of two Updates that have both read, the row after both
\* writes is the second writer's entity, in either order.
C20_LastWriterWins ==
    LET Writable(w) ==
            /\ inflight[w].op = "UpdateSave"
            /\ ~users[inflight[w].id].Deleted
            /\ \A i \in DOMAIN users :
                  i # inflight[w].id => users[i].Email # inflight[w].user.Email
    IN  /\ \A w \in Workers :
              Writable(w) =>
                  LET r == UpdateSaveStep(users, inflight[w])
                  IN  /\ r.resp.status = 200
                      /\ r.resp.data = UserResponse(inflight[w].user)
                      /\ r.users = [users EXCEPT ![inflight[w].id] = inflight[w].user]
        /\ \A v, w \in Workers :
              (v # w /\ Writable(v) /\ Writable(w) /\ inflight[v].id = inflight[w].id)
              => LET first == UpdateSaveStep(users, inflight[v])
                     second == UpdateSaveStep(first.users, inflight[w])
                 IN  /\ first.resp.status = 200
                     /\ second.resp.status = 200
                     /\ second.users[inflight[w].id] = inflight[w].user
                     /\ \A i \in DOMAIN users :
                           i # inflight[w].id => second.users[i] = users[i]

\* One Update has stored the name Bob; the other, which read the user before
\* that and moves it to a new email, is about to write the old name back.
C20_Witness ==
    \E w \in Workers :
        /\ inflight[w].op = "UpdateSave"
        /\ inflight[w].id = 1
        /\ inflight[w].user.Email = RaceRegister.email
        /\ inflight[w].user.Name = ConcRegister.name
        /\ ~users[1].Deleted
        /\ users[1].Name = "Bob"
        /\ \A i \in DOMAIN users : users[i].Email # RaceRegister.email

(***************************************************************************)
(* Properties of the error answers (Spec).                                 *)
(***************************************************************************)
\* C21: GET, PUT and DELETE /users/:id under a valid token, for an id that no
\* row which is not deleted carries, are each answered 404 "user not found"
\* and leave the table as it is.
C21_AbsentIdNotFound ==
    \A b \in Held, i \in IdParams :
        (/\ ValidateToken(b, now).ok
         /\ ParseUint(i).ok
         /\ FindByID(users, ParseUint(i).value).err # "")
        => LET NotFound(resp) ==
                   /\ resp # None
                   /\ resp.status = 404
                   /\ resp.message = "user not found"
               Kept(r) == r.users = users /\ r.flight = Idle
           IN  /\ NotFound(GetUserResponse(users, now, Req(b, i, None)))
               /\ \A body \in UpdateBodies, salt \in Salts :
                     BindUpdate(body).ok =>
                         LET r == UpdateUserStep(users, now, Req(b, i, body), salt)
                         IN  Kept(r) /\ NotFound(r.resp)
               /\ LET r == DeleteUserStep(users, now, Req(b, i, None))
                  IN  Kept(r) /\ NotFound(r.resp)

C26_RoleAndActiveFixed ==
    [][/\ DOMAIN users \subseteq DOMAIN users'
       /\ \A i \in DOMAIN users :
             /\ users'[i].ID = users[i].ID
             /\ users'[i].Role = users[i].Role
             /\ users'[i].IsActive = users[i].IsActive
       /\ \A i \in DOMAIN users' :
             /\ users'[i].ID = i
             /\ users'[i].Role = "user"
             /\ users'[i].IsActive]_vars

\* A user has been deleted, a registration under its email has been refused
\* by the index, its id lost, and the user registered next, under id 3, has
\* been renamed and given a new password.
C26_Witness ==
    /\ DOMAIN users = {1, 3}
    /\ users[1].Deleted
    /\ users[3].Name = "Bob"
    /\ CheckPassword(NewPassword, users[3].Password)

\* C29: no two rows, deleted or not, hold one email.  When only a deleted
\* row holds an email, a Register with it passes the pre-check and its insert
\* is refused by the index (400 with the duplicate-key error, no row added),
\* and an Update of another user to it passes the pre-check and its write is
\* refused in the same way, the table unchanged.
C29_DeletedEmailStaysTaken ==
    LET HeldByDeleted(e) ==
            /\ \E i \in DOMAIN users : users[i].Deleted /\ users[i].Email = e
            /\ \A i \in DOMAIN users : users[i].Email = e => users[i].Deleted
        Refused(r) ==
            /\ r.users = users
            /\ r.flight = Idle
            /\ r.resp.status = 400
            /\ r.resp.message = ErrDuplicatedKey
            /\ r.resp.data = None
    IN  /\ \A i, j \in DOMAIN users : i # j => users[i].Email # users[j].Email
        /\ \A body \in RegisterBodies, salt \in Salts :
              (BindRegister(body).ok /\ HeldByDeleted(body.email))
              => LET bound == RegisterStep(users, now, Req(None, Absent, body))
                     check == RegisterFindStep(users, bound.flight, salt)
                     draw == RegisterCreateStep(users, seq, check.flight)
                 IN  /\ bound.users = users
                     /\ bound.flight.op = "RegisterFind"
                     /\ check.users = users
                     /\ check.flight.op = "RegisterCreate"
                     /\ draw.users = users
                     /\ draw.flight.op = "RegisterInsert"
                     /\ Refused(RegisterInsertStep(users, draw.flight))
        /\ \A b \in Held, i \in IdParams, body \in UpdateBodies, salt \in Salts :
              (/\ ValidateToken(b, now).ok
               /\ ParseUint(i).ok
               /\ FindByID(users, ParseUint(i).value).err = ""
               /\ BindUpdate(body).ok
               /\ HeldByDeleted(body.email))
              => LET load == UpdateUserStep(users, now, Req(b, i, body), salt)
                     check == UpdateCheckEmailStep(users, load.flight, salt)
                 IN  /\ load.users = users
                     /\ load.flight.op = "UpdateCheckEmail"
                     /\ check.users = users
                     /\ check.flight.op = "UpdateSave"
                     /\ Refused(UpdateSaveStep(users, check.flight))

\* A user was deleted, and an Update of the other user to the deleted user's
\* email has just been refused by the index.
C29_Witness ==
    /\ \E i \in DOMAIN users : users[i].Deleted
    /\ out # None
    /\ out.route = RPut
    /\ out.status = 400
    /\ out.message = ErrDuplicatedKey

\* C30: Login checks against what the last successful Update stored.  On
\* every write of an Update that is answered 200: when the request gave a
\* password, a Login with the user's email and that password succeeds and one
\* with any other password fails with "invalid email or password"; when the
\* request changed the email, a Login with the old email fails in the same way
\* whatever the password, and a Login with the new email and the password
\* that verifies against the stored hash succeeds.
C30_LoginSeesLastUpdate ==
    [][\A w \in Workers :
          (/\ inflight[w].op = "UpdateSave"
           /\ inflight'[w] = Idle
           /\ out'.status = 200)
          => LET f == inflight[w]
                 old == users[f.id]
                 new == users'[f.id]
                 LoginWith(e, p) ==
                     LoginResponse(users', now, Req(None, Absent,
                                                    [email |-> e, password |-> p]))
                 Fails(r) == r.status = 401 /\ r.message = "invalid email or password"
             IN  /\ f.req.body.password # ""
                    => /\ LoginWith(new.Email, f.req.body.password).status = 200
                       /\ \A p \in Passwords \ {f.req.body.password} :
                             Fails(LoginWith(new.Email, p))
                 /\ new.Email # old.Email
                    => /\ new.Email = f.req.body.email
                       /\ \A p \in Passwords : Fails(LoginWith(old.Email, p))
                       /\ \A p \in Passwords :
                             CheckPassword(p, new.Password)
                             => LoginWith(new.Email, p).status = 200]_vars

\* An Update that gave user 1 a new email and a new password has just been
\* answered 200.
C30_Witness ==
    /\ out # None
    /\ out.route = RPut
    /\ out.status = 200
    /\ Len(users) >= 1
    /\ users[1].Email = "b@x.com"
    /\ CheckPassword(NewPassword, users[1].Password)
    /\ ~CheckPassword(SeedPassword, users[1].Password)

(***************************************************************************)
(* Properties of failures and of the start (SpecOps).                      *)
(***************************************************************************)
\* C22: while the database cannot be reached, a Register, Login, GET
\* /users/:id, GET /users, PUT /users/:id or DELETE /users/:id request that
\* comes to a repository call is answered 500 with the store's error as it
\* was raised, and not 400, 401 or 404.
C22_StoreFailureIs500 ==
    LET Internal(resp) ==
            /\ resp # None
            /\ resp.status = 500
            /\ resp.message = ErrConnection
    IN  (phase = "serving" /\ Down) =>
          /\ \A salt \in Salts :
                Internal(RegisterFindStep(
                             users,
                             RegisterStep(users, now,
                                          Req(None, Absent, ConcRegister)).flight,
                             salt).resp)
          /\ Internal(LoginResponse(users, now, Req(None, Absent, ConcLogin)))
          /\ \A b \in Held :
                ValidateToken(b, now).ok =>
                  /\ Internal(GetUserResponse(users, now, Req(b, "2", None)))
                  /\ \A q \in DefaultQueries :
                        Internal(GetUsersStep(users, now, Req(b, Absent, q)).resp)
                  /\ \A body \in ConcUpdates, salt \in Salts :
                        Internal(UpdateUserStep(users, now, Req(b, "2", body), salt).resp)
                  /\ Internal(DeleteUserStep(users, now, Req(b, "2", None)).resp)
          /\ \A w \in Workers :
                /\ inflight[w].op = "RegisterFind"
                   => \A salt \in Salts :
                         Internal(RegisterFindStep(users, inflight[w], salt).resp)
                /\ inflight[w].op = "RegisterCreate"
                   => Internal(RegisterCreateStep(users, seq, inflight[w]).resp)
                /\ inflight[w].op = "RegisterInsert"
                   => Internal(RegisterInsertStep(users, inflight[w]).resp)
                /\ inflight[w].op = "GetUsersFind"
                   => \A order \in Orders(Visible(users)) :
                         Internal(GetUsersFindStep(users, inflight[w], order).resp)
                /\ inflight[w].op = "UpdateCheckEmail"
                   => \A salt \in Salts :
                         Internal(UpdateCheckEmailStep(users, inflight[w], salt).resp)
                /\ inflight[w].op = "UpdateSave"
                   => Internal(UpdateSaveStep(users, inflight[w]).resp)
                /\ inflight[w].op = "UpdateUpsert"
                   => Internal(UpdateUpsertStep(users, inflight[w]).resp)
                /\ inflight[w].op = "DeleteSoft"
                   => Internal(DeleteSoftStep(users, inflight[w]).resp)

\* C24: a panic while a request is processed, before the handler's first
\* repository call or between two calls, is answered by the recovery
\* middleware with 500 "Internal server error", a response that has neither
\* data nor error detail and does not repeat the panic value; the table is
\* left as it is and the worker is free again; the step that answers a
\* panic leaves the process in the phase it was in, so a serving server goes
\* on serving (until the operator stops it).
C24_PanicIsGeneric500 ==
    /\ [](LET Generic(resp, v) ==
                  /\ resp.by = "RecoveryMiddleware"
                  /\ resp.status = 500
                  /\ resp.message = "Internal server error"
                  /\ resp.message # v
                  /\ resp.data = None
                  /\ resp.error = None
          IN  /\ \A v \in PanicValues, route \in Registered :
                    Generic(RecoveryMiddleware(route, Req(None, Absent, None), v), v)
              /\ \A w \in Workers, v \in PanicValues :
                    inflight[w] # Idle =>
                        LET r == PanicStep(users, inflight[w], v)
                        IN  /\ Generic(r.resp, v)
                            /\ r.users = users
                            /\ r.flight = Idle
              /\ (out # None /\ out.by = "RecoveryMiddleware")
                 => /\ out.status = 500
                    /\ out.message = "Internal server error")
    /\ [][(/\ out' # None
           /\ out'.by = "RecoveryMiddleware"
           /\ out' # out \/ inflight' # inflight)
          => /\ phase \in {"serving", "stopping"}
             /\ phase' = phase
             /\ users' = users
             /\ \E w \in One : inflight'[w] = Idle]_vars

\* A request has panicked after the client had logged in, and was answered
\* by the recovery middleware.
C24_Witness ==
    /\ out # None
    /\ out.by = "RecoveryMiddleware"
    /\ out.route = RPut
    /\ wallet # None

\* C25 as the specification states it: whenever the database can be reached
\* at the start the process comes to serve, with the cache reachable or not;
\* when the database cannot be reached the process exits.
C25_ServesWhenDatabaseUp ==
    /\ (phase = "config" /\ deps.database) ~> (phase = "serving")
    /\ (phase = "config" /\ ~deps.database) ~> (phase = "exited")

\* C25: whenever the database can be reached and the port can be bound the
\* process comes to serve, with the cache reachable or not, and then serves
\* until the operator's signal stops it; the step that connects to the cache
\* always leads on to listening; when the database cannot be reached the
\* process exits, and when the port cannot be bound it exits as well, in
\* both cases by the very step that meets the failure; a start is given up
\* for no reason other than the database or the port.
C25_ServesWhenDatabaseAndPortUp ==
    /\ (phase = "config" /\ deps.database /\ deps.port) ~> (phase = "serving")
    /\ (phase = "config" /\ ~deps.database) ~> (phase = "exited")
    /\ (phase = "config" /\ deps.database /\ ~deps.port) ~> (phase = "exited")
    /\ [][(phase = "database" /\ ~deps.database) => phase' = "exited"]_phase
    /\ [][(phase = "listen" /\ ~deps.port) => phase' = "exited"]_phase
    /\ [][phase = "cache" => phase' = "listen"]_phase
    /\ [][phase = "serving" => phase' = "stopping"]_phase
    /\ [][(phase \in {"config", "database", "cache", "listen"} /\ phase' = "exited")
          => \/ phase = "database" /\ ~deps.database
             \/ phase = "listen" /\ ~deps.port]_phase

\* The process serves although the cache could not be reached.
C25_Witness ==
    /\ phase = "serving"
    /\ ~deps.cache
    /\ out # None

(***************************************************************************)
(* Properties of what a token permits and of what Login tells (SpecTime).  *)
(***************************************************************************)
\* C27: PUT and DELETE /users/:id do the same under every valid token: for
\* the tokens of any two stored users, whatever their ids and roles, and for
\* any id and body, the two requests leave the same table, go on to the same
\* repository call with the same entity and give the same status, message
\* and data; the steps that follow do not look at the identity either.
C27_AnyTokenActsOnAnyUser ==
    LET Tokens == {GenerateToken(users[i].ID, users[i].Email, users[i].Role, now) :
                       i \in DOMAIN users}
        SameAnswer(p, q) ==
            IF p = None \/ q = None THEN p = None /\ q = None
            ELSE /\ p.status = q.status
                 /\ p.message = q.message
                 /\ p.data = q.data
                 /\ p.by = q.by
        Same(r1, r2) ==
            /\ r1.users = r2.users
            /\ r1.flight.op = r2.flight.op
            /\ r1.flight.op # "idle" => r1.flight.id = r2.flight.id
            /\ r1.flight.op \in {"UpdateCheckEmail", "UpdateSave"}
               => r1.flight.user = r2.flight.user
            /\ SameAnswer(r1.resp, r2.resp)
    IN  /\ \A b1, b2 \in Tokens, i \in IdParams :
              /\ ValidateToken(b1, now).ok
              /\ \A body \in UpdateBodies, salt \in Salts :
                    Same(UpdateUserStep(users, now, Req(b1, i, body), salt),
                         UpdateUserStep(users, now, Req(b2, i, body), salt))
              /\ Same(DeleteUserStep(users, now, Req(b1, i, None)),
                      DeleteUserStep(users, now, Req(b2, i, None)))
        /\ \A w \in Workers, b \in Tokens :
              LET f == inflight[w]
                  g == [f EXCEPT !.auth = AuthMiddleware(b, now).auth]
              IN  /\ f.op = "UpdateCheckEmail"
                     => \A salt \in Salts :
                           Same(UpdateCheckEmailStep(users, f, salt),
                                UpdateCheckEmailStep(users, g, salt))
                  /\ f.op = "UpdateSave"
                     => Same(UpdateSaveStep(users, f), UpdateSaveStep(users, g))
                  /\ f.op = "DeleteSoft"
                     => Same(DeleteSoftStep(users, f), DeleteSoftStep(users, g))

\* The client holds the token of the account it registered, of role "user",
\* and its DELETE of the administrator has just been answered 200.
C27_Witness ==
    /\ wallet # None
    /\ Claim(wallet.payload, "user_id") = 3
    /\ Claim(wallet.payload, "role") = "user"
    /\ out # None
    /\ out.route = RDelete
    /\ out.status = 200
    /\ users[1].Deleted

\* C28: Login answers "account is not active" only when the password given
\* verifies against the hash of a stored, inactive user with the email given;
\* for an inactive user and a password that does not verify the answer is the
\* answer for an email nobody holds: 401 "invalid email or password", no data.
C28_ActiveFlagNeedsPassword ==
    LET Unknown == LoginResponse(users, now,
                       Req(None, Absent, [email |-> "b@x.com", password |-> SeedPassword]))
        Logins == SeededLogins \cup Credentials
    IN  /\ \A i \in DOMAIN users : ~users[i].Deleted => users[i].Email # "b@x.com"
        /\ \A body \in Logins :
              LET r == LoginResponse(users, now, Req(None, Absent, body))
              IN  /\ r.message = "account is not active"
                     => \E i \in DOMAIN users :
                           /\ ~users[i].Deleted
                           /\ users[i].Email = body.email
                           /\ ~users[i].IsActive
                           /\ CheckPassword(body.password, users[i].Password)
                  /\ (\E i \in DOMAIN users :
                         /\ ~users[i].Deleted
                         /\ users[i].Email = body.email
                         /\ ~users[i].IsActive
                         /\ ~CheckPassword(body.password, users[i].Password))
                     => /\ r.status = Unknown.status
                        /\ r.message = Unknown.message
                        /\ r.data = Unknown.data
                        /\ r.error = Unknown.error
                        /\ r.status = 401
                        /\ r.message = "invalid email or password"

\* The administrator is inactive, and a Login has just been told so.
C28_Witness ==
    /\ ~users[1].IsActive
    /\ out # None
    /\ out.route = RLogin
    /\ out.message = "account is not active"

====
